---- MODULE Spec2Model ----
(***************************************************************************)
(* Shopping-cart demo of the Next.js onion-architecture repository:        *)
(* the Cart entity, the in-memory cart repository, the AddItemToCart and   *)
(* GetCart use cases, the zustand cart store with its optimistic add, and  *)
(* the useAddToCart hook, the cart and users API routes, the payment       *)
(* adapter template with its retry loop, and the class-generation workflow *)
(* (validation, routing, generation, registry).  Asynchronous functions    *)
(* are modelled as sequences of atomic steps, one per synchronous segment  *)
(* between awaits.                                                         *)
(***************************************************************************)
EXTENDS Integers, Sequences, FiniteSets, TLC

\* ------------------------------------------------------------------ bounds
MaxCalls == 2           \* store actions / hook calls started in one behaviour
MaxAdds == 4            \* Cart.addItem calls on the stand-alone entity
MaxFaults == 1          \* repository promises that reject in one behaviour
MaxAdapterCalls == 2    \* calls of the payment adapter in one behaviour
MaxBatchLen == 3        \* items in one batch of class specifications
MaxUseCases == 2        \* use-case objects the factories create
MaxRuns == 2            \* execute calls made on those objects
MaxRepoOps == 6         \* calls made on the repository and on Cart objects

Users == {"u1", "u2"}
Products == {"p1", "p2"}
EntityProducts == {"p1", "p2", "p3"}
QtyInputs == {0, 1}                       \* numeric qty arguments of the store's addToCart
HookQtyInputs == {0, 1, 2}                \* numeric qty arguments of the hook's addToCart
EntityQtyInputs == {-1, 0, 1, 2}          \* qty arguments of Cart.addItem
Digits == {"0", "1", "2"}
Missing == <<"n", "u", "l", "l">>         \* String(null), what parseInt sees for an absent field
FormQtyInputs == {Missing, <<"0">>, <<"-", "1">>}
RepoOutcomes == {"ok", "reject"}          \* a repository promise resolves or rejects

QtyError == "Quantity must be positive"
RepoError == "repository rejected"
NoError == "none"

\* ------------------------------------------------------------ Cart entity
\* Cart.items is a Map: a sequence of items in insertion order, one per key.
Item(p, q) == [productId |-> p, quantity |-> q]

NewCart == <<>>

IndexOf(items, p) ==
    IF \E i \in 1..Len(items) : items[i].productId = p
    THEN CHOOSE i \in 1..Len(items) :
            /\ items[i].productId = p
            /\ \A j \in 1..(i - 1) : items[j].productId # p
    ELSE 0

\* mutant of AddItemThrows: only a negative quantity is refused
AddItemThrowsNegativeOnly(qty) == qty < 0

\* if (qty <= 0) throw new Error("Quantity must be positive")
AddItemThrows(qty) == qty <= 0

\* mutant of AddItem: a new entry is appended even when the key exists
AddItemNoMerge(items, p, qty) ==
    IF AddItemThrows(qty)
    THEN [threw |-> TRUE, error |-> QtyError, items |-> items]
    ELSE [threw |-> FALSE, error |-> NoError,
          items |-> Append(items, Item(p, qty))]

\* Cart.addItem: the result of the call, [threw, error, items after the call]
AddItem(items, p, qty) ==
    IF AddItemThrows(qty)
    THEN [threw |-> TRUE, error |-> QtyError, items |-> items]
    ELSE IF IndexOf(items, p) > 0
         THEN [threw |-> FALSE, error |-> NoError,
               items |-> [items EXCEPT ![IndexOf(items, p)].quantity = @ + qty]]
         ELSE [threw |-> FALSE, error |-> NoError,
               items |-> Append(items, Item(p, qty))]

GetItems(items) == items

\* ------------------------------------------------- in-memory repository
\* InMemoryCartDB.data maps a userId to JSON text; the text is modelled as
\* the list of {productId, quantity} objects it encodes.
JsonStringify(items) ==
    [i \in 1..Len(items) |-> Item(items[i].productId, items[i].quantity)]

RECURSIVE RebuildCart(_, _)
\* new Cart(); JSON.parse(json).forEach(i => cart.addItem(...)); a throw
\* inside the loop is caught by InMemoryCartDB.get and yields null.
RebuildCart(json, acc) ==
    IF json = <<>> THEN [isNull |-> FALSE, items |-> acc]
    ELSE LET r == AddItem(acc, Head(json).productId, Head(json).quantity)
         IN  IF r.threw THEN [isNull |-> TRUE, items |-> <<>>]
             ELSE RebuildCart(Tail(json), r.items)

NullCart == [isNull |-> TRUE, items |-> <<>>]

DBGet(data, u) ==
    IF u \notin DOMAIN data THEN NullCart ELSE RebuildCart(data[u], NewCart)

DBSet(data, u, items) ==
    [v \in DOMAIN data \cup {u} |->
        IF v = u THEN JsonStringify(GetItems(items)) ELSE data[v]]

\* ------------------------------------------------------------ cart store
\* parseInt on a short string: optional sign, then leading digits.
RECURSIVE DigitsValue(_, _)
DigitsValue(s, acc) ==
    IF s = <<>> \/ Head(s) \notin Digits THEN acc
    ELSE DigitsValue(Tail(s),
                     10 * acc + (CASE Head(s) = "0" -> 0
                                   [] Head(s) = "1" -> 1
                                   [] Head(s) = "2" -> 2))

\* the result is [nan, val]: NaN when no digit follows the optional sign
ParseInt(s) ==
    LET neg == s # <<>> /\ Head(s) = "-"
        body == IF s # <<>> /\ Head(s) \in {"-", "+"} THEN Tail(s) ELSE s
    IN  IF body = <<>> \/ Head(body) \notin Digits
        THEN [nan |-> TRUE, val |-> 0]
        ELSE [nan |-> FALSE,
              val |-> IF neg THEN 0 - DigitsValue(body, 0)
                      ELSE DigitsValue(body, 0)]

\* parseInt(formData.get('qty')) || 1 : NaN and 0 are falsy
FormQty(s) == IF ParseInt(s).nan \/ ParseInt(s).val = 0 THEN 1
              ELSE ParseInt(s).val

\* get().carts[userId] || []
CartOf(cs, u) == IF u \in DOMAIN cs THEN cs[u] ELSE <<>>

\* mutant of SetCart: the other users' entries are not spread into the
\* new object
SetCartAlone(cs, u, cart) == [v \in {u} |-> cart]

\* { ...state.carts, [userId]: cart }
SetCart(cs, u, cart) ==
    [v \in DOMAIN cs \cup {u} |-> IF v = u THEN cart ELSE cs[v]]

\* Array.isArray(cart) ? cart : []
EnsureArray(cart) == IF DOMAIN cart = 1..Len(cart) THEN cart ELSE <<>>

\* mutant of createOptimisticCart: the quantity is replaced, not added
createOptimisticCartReplace(currentCartArg, productId, qty) ==
    LET existingIndex == IndexOf(currentCartArg, productId)
    IN  IF existingIndex > 0
        THEN [currentCartArg EXCEPT ![existingIndex].quantity = qty]
        ELSE Append(currentCartArg, Item(productId, qty))

\* mutant of createOptimisticCart: a new item is put in front of the list
createOptimisticCartPrepends(currentCartArg, productId, qty) ==
    LET existingIndex == IndexOf(currentCartArg, productId)
    IN  IF existingIndex > 0
        THEN [currentCartArg EXCEPT ![existingIndex].quantity = @ + qty]
        ELSE <<Item(productId, qty)>> \o currentCartArg

createOptimisticCart(currentCartArg, productId, qty) ==
    LET existingIndex == IndexOf(currentCartArg, productId)
    IN  IF existingIndex > 0
        THEN [currentCartArg EXCEPT ![existingIndex].quantity = @ + qty]
        ELSE Append(currentCartArg, Item(productId, qty))

\* ------------------------------------------------------------------ state
VARIABLES
    db,           \* InMemoryCartDB.data : userId -> JSON text
    carts,        \* useCartStore state: carts
    currentCart,  \* useCartStore state: currentCart
    loading,      \* useAddToCart: the loading state of the hook instance
    calls,        \* the asynchronous calls in flight, one record per call
    log,          \* history: the store events in the order they happened
    faults,       \* the number of repository promises that have rejected
    entity,       \* a stand-alone Cart object: its items
    entityLog,    \* history: the addItem calls made on the stand-alone Cart
    responses,    \* history: the responses the API route handlers returned
    request,      \* the adapter's _request call in progress: its locals
    requestLog,   \* history: the finished _request calls
    intentLog,    \* history: the finished create_payment_intent calls
    registry,     \* artifact registry: class_name -> artifact descriptor
    files,        \* the generated files: the classes each path holds
    genErrors,    \* the errors recorded for the items of the current batch
    output,       \* the output JSON of the current batch
    batch,        \* the batch being processed: the items read so far
    batches,      \* the last finished batch, kept while it is re-submitted
    cartRepo,     \* dependency/cart.ts: the module variable cartRepo
    constructed,  \* the number of CartRepoHttp objects constructed so far
    useCases,     \* the use-case objects the factories returned, in order
    diRuns,       \* the execute calls made on those use-case objects
    diLog,        \* history: the factory calls and the settled execute calls
    heap,         \* the Cart objects a caller of the repository holds
    repoLog       \* history: the load, save and addItem calls on them

vars == <<db, carts, currentCart, loading, calls, log, faults, entity, entityLog,
          responses, request, requestLog, intentLog,
          registry, files, genErrors, output, batch, batches,
          cartRepo, constructed, useCases, diRuns, diLog, heap, repoLog>>

adapterVars == <<request, requestLog, intentLog>>

genVars == <<registry, files, genErrors, output, batch, batches>>

diVars == <<cartRepo, constructed, useCases, diRuns, diLog>>

repoVars == <<heap, repoLog>>

\* let cartRepo: before the first call of getCartRepo
Undefined == 0

CallIds == 1..MaxCalls

\* the locals of _request outside a call
IdleRequest ==
    [pc |-> "idle", attempt |-> 0, outcomes |-> <<>>, sleeps |-> <<>>]

\* the batch driver before its first batch
IdleBatch ==
    [pc |-> "idle", items |-> <<>>, before |-> <<>>, filesBefore |-> {},
     resubmit |-> FALSE]

IdleCall ==
    [kind |-> "none", pc |-> "idle", userId |-> "u1", productId |-> "p1",
     qty |-> 0, snapshot |-> <<>>, loaded |-> NullCart, result |-> <<>>,
     reloaded |-> NullCart, error |-> NoError, thrown |-> NoError,
     formQty |-> <<>>]

Event(c, ev, u, val) == [call |-> c, ev |-> ev, userId |-> u, val |-> val]

\* calls are numbered in the order they start
CanStart(c) ==
    /\ calls[c].pc = "idle"
    /\ \A d \in CallIds : d < c => calls[d].pc # "idle"

Init ==
    /\ db = <<>>
    /\ carts = <<>>
    /\ currentCart = <<>>
    /\ loading = FALSE
    /\ calls = [c \in CallIds |-> IdleCall]
    /\ log = <<>>
    /\ faults = 0
    /\ entity = NewCart
    /\ entityLog = <<>>
    /\ responses = <<>>
    /\ request = IdleRequest
    /\ requestLog = <<>>
    /\ intentLog = <<>>
    /\ registry = <<>>
    /\ files = {}
    /\ genErrors = <<>>
    /\ output = <<>>
    /\ batch = IdleBatch
    /\ batches = <<>>
    /\ cartRepo = Undefined
    /\ constructed = 0
    /\ useCases = <<>>
    /\ diRuns = <<>>
    /\ diLog = <<>>
    /\ heap = <<>>
    /\ repoLog = <<>>

\* --------------------------------------------------------------- use cases
\* ICartRepository.load called by a use case: the in-memory repository reads
\* the database during the call; the promise then resolves or rejects.
RepoLoad(u, outcome) ==
    IF outcome = "ok" THEN [ok |-> TRUE, cart |-> DBGet(db, u)]
    ELSE [ok |-> FALSE, cart |-> NullCart]

\* AddItemToCart.execute(userId, productId, qty), up to its first await
ExecStart(base, outcome) ==
    LET r == RepoLoad(base.userId, outcome)
    IN  IF r.ok THEN [base EXCEPT !.pc = "execLoaded", !.loaded = r.cart]
        ELSE [base EXCEPT !.pc = "failed", !.error = RepoError]

\* GetCart.execute(userId), up to its first await
GetCartStart(base, outcome) ==
    LET r == RepoLoad(base.userId, outcome)
    IN  IF r.ok THEN [base EXCEPT !.pc = "reloaded", !.reloaded = r.cart]
        ELSE [base EXCEPT !.pc = "failed", !.error = RepoError]

\* the outcomes a repository promise can still have
Outcomes == IF faults < MaxFaults THEN RepoOutcomes ELSE {"ok"}

Fault(outcome) == faults' = IF outcome = "ok" THEN faults ELSE faults + 1

\* mutant of ExecAddSave: the loaded cart is saved first, then addItem runs
ExecSavesThenAdds(c) ==
    /\ calls[c].pc = "execLoaded"
    /\ LET call == calls[c]
           cart == IF call.loaded.isNull THEN NewCart ELSE call.loaded.items
           r == AddItem(cart, call.productId, call.qty)
       IN  /\ db' = DBSet(db, call.userId,
                          IF r.threw THEN cart ELSE r.items)
           /\ faults' = faults
           /\ IF r.threw
              THEN calls' = [calls EXCEPT ![c].pc = "failed",
                                          ![c].error = r.error]
              ELSE calls' = [calls EXCEPT ![c].pc = "execSaved",
                                          ![c].result = GetItems(r.items)]
    /\ UNCHANGED <<carts, currentCart, loading, log, entity, entityLog,
                   responses, adapterVars, genVars, diVars, repoVars>>

\* mutant of ExecAddSave: the cart is saved before the item is added to it
ExecSaveBeforeAdd(c) ==
    /\ calls[c].pc = "execLoaded"
    /\ LET call == calls[c]
           cart == IF call.loaded.isNull THEN NewCart ELSE call.loaded.items
           r == AddItem(cart, call.productId, call.qty)
       IN  IF r.threw
           THEN /\ calls' = [calls EXCEPT ![c].pc = "failed",
                                          ![c].error = r.error]
                /\ db' = db
           ELSE /\ db' = DBSet(db, call.userId, cart)
                /\ calls' = [calls EXCEPT ![c].pc = "execSaved",
                                          ![c].result = GetItems(r.items)]
    /\ UNCHANGED <<carts, currentCart, loading, log, faults, entity, entityLog, responses,
                   adapterVars, genVars,
                   diVars, repoVars>>

\* AddItemToCart.execute, after the load has resolved:
\*   cart = loaded ?? new Cart(); cart.addItem(productId, qty);
\*   await repo.save(userId, cart); return cart.getItems()
ExecAddSave(c) ==
    /\ calls[c].pc = "execLoaded"
    /\ LET call == calls[c]
           cart == IF call.loaded.isNull THEN NewCart ELSE call.loaded.items
           r == AddItem(cart, call.productId, call.qty)
       IN  IF r.threw
           THEN /\ calls' = [calls EXCEPT ![c].pc = "failed",
                                          ![c].error = r.error]
                /\ db' = db
                /\ faults' = faults
           ELSE \E outcome \in Outcomes :
                  /\ Fault(outcome)
                  /\ IF outcome = "ok"
                     THEN /\ db' = DBSet(db, call.userId, r.items)
                          /\ calls' = [calls EXCEPT ![c].pc = "execSaved",
                                           ![c].result = GetItems(r.items)]
                     ELSE /\ db' = db
                          /\ calls' = [calls EXCEPT ![c].pc = "failed",
                                                    ![c].error = RepoError]
    /\ UNCHANGED <<carts, currentCart, loading, log, entity, entityLog, responses,
                   adapterVars, genVars,
                   diVars, repoVars>>

\* GetCart.execute: cart = await repo.load(userId); cart?.getItems() ?? []
GetCartResult(loaded) == IF loaded.isNull THEN <<>> ELSE GetItems(loaded.items)

\* ------------------------------------------------------ cart store actions
\* loadCart(userId), up to the await of GetCart.execute
StartLoadCart(c, u) ==
    /\ CanStart(c)
    /\ \E outcome \in Outcomes :
         /\ Fault(outcome)
         /\ calls' = [calls EXCEPT ![c] =
             GetCartStart([IdleCall EXCEPT !.kind = "loadCart", !.userId = u],
                          outcome)]
    /\ log' = Append(log, Event(c, "start", u, <<>>))
    /\ UNCHANGED <<db, carts, currentCart, loading, entity, entityLog, responses,
                   adapterVars, genVars,
                   diVars, repoVars>>

\* addToCart(userId, productId, qty), up to the await of AddItemToCart.execute
StartAddToCart(c, u, p, q) ==
    /\ CanStart(c)
    /\ \E outcome \in Outcomes :
         /\ Fault(outcome)
         /\ calls' = [calls EXCEPT ![c] =
             ExecStart([IdleCall EXCEPT !.kind = "addToCart", !.userId = u,
                                        !.productId = p, !.qty = q],
                       outcome)]
    /\ log' = Append(log, Event(c, "start", u, <<>>))
    /\ UNCHANGED <<db, carts, currentCart, loading, entity, entityLog, responses,
                   adapterVars, genVars,
                   diVars, repoVars>>

\* addToCartOptimistic(userId, formData), up to the await of
\* AddItemToCart.execute: snapshot, optimistic write, use-case invocation
StartOptimistic(c, u, p, s) ==
    /\ CanStart(c)
    /\ LET qty == FormQty(s)
           cur == CartOf(carts, u)
           cartSnapshot == cur
           optimisticCart == createOptimisticCart(cur, p, qty)
       IN  /\ carts' = SetCart(carts, u, optimisticCart)
           /\ currentCart' = optimisticCart
           /\ log' = log \o <<Event(c, "snapshot", u, cartSnapshot),
                              Event(c, "optimistic", u, optimisticCart),
                              Event(c, "invoke", u, <<>>)>>
           /\ \E outcome \in Outcomes :
                /\ Fault(outcome)
                /\ calls' = [calls EXCEPT ![c] =
                    ExecStart([IdleCall EXCEPT
                                  !.kind = "addToCartOptimistic",
                                  !.userId = u, !.productId = p,
                                  !.qty = qty, !.snapshot = cartSnapshot,
                                  !.formQty = s],
                              outcome)]
    /\ UNCHANGED <<db, loading, entity, entityLog, responses,
                   adapterVars, genVars,
                   diVars, repoVars>>

StoreKinds == {"addToCart", "addToCartOptimistic"}

\* addToCart / addToCartOptimistic after execute resolved:
\* createGetCart().execute(userId), up to its await
Reload(c) ==
    /\ calls[c].pc = "execSaved"
    /\ calls[c].kind \in StoreKinds
    /\ \E outcome \in Outcomes :
         /\ Fault(outcome)
         /\ calls' = [calls EXCEPT ![c] = GetCartStart(calls[c], outcome)]
    /\ UNCHANGED <<db, carts, currentCart, loading, log, entity, entityLog, responses,
                   adapterVars, genVars,
                   diVars, repoVars>>

\* mutant of Confirm: the optimistic guess is kept, nothing is written
ConfirmKeepsOptimistic(c) ==
    /\ calls[c].pc = "reloaded"
    /\ log' = Append(log, Event(c, "confirm", calls[c].userId,
                                CartOf(carts, calls[c].userId)))
    /\ calls' = [calls EXCEPT ![c].pc = "resolved"]
    /\ UNCHANGED <<db, carts, currentCart, loading, faults, entity, entityLog, responses,
                   adapterVars, genVars,
                   diVars, repoVars>>

\* mutant of Confirm: something after the confirming write throws inside
\* the try block, so the catch runs as well
ConfirmThenFails(c) ==
    /\ calls[c].pc = "reloaded"
    /\ LET u == calls[c].userId
           safeCart == EnsureArray(GetCartResult(calls[c].reloaded))
       IN  /\ carts' = SetCart(carts, u, safeCart)
           /\ currentCart' = safeCart
           /\ log' = Append(log, Event(c, "confirm", u, safeCart))
    /\ calls' = [calls EXCEPT ![c].pc = "failed", ![c].error = RepoError]
    /\ UNCHANGED <<db, loading, faults, entity, entityLog, responses,
                   adapterVars, genVars,
                   diVars, repoVars>>

\* mutant of Confirm: the result of a call is dropped once a call started
\* later has written its final state
ConfirmUnlessSuperseded(c) ==
    /\ calls[c].pc = "reloaded"
    /\ LET u == calls[c].userId
           safeCart == EnsureArray(GetCartResult(calls[c].reloaded))
           superseded == \E d \in CallIds :
                            d > c /\ calls[d].pc \in {"resolved", "rejected"}
       IN  /\ carts' = IF superseded THEN carts ELSE SetCart(carts, u, safeCart)
           /\ currentCart' = IF superseded THEN currentCart ELSE safeCart
           /\ log' = Append(log, Event(c, "confirm", u, safeCart))
    /\ calls' = [calls EXCEPT ![c].pc = "resolved"]
    /\ UNCHANGED <<db, loading, faults, entity, entityLog, responses,
                   adapterVars, genVars,
                   diVars, repoVars>>

\* the write of the authoritative cart: set({carts: {...}, currentCart})
Confirm(c) ==
    /\ calls[c].pc = "reloaded"
    /\ LET u == calls[c].userId
           safeCart == EnsureArray(GetCartResult(calls[c].reloaded))
       IN  /\ carts' = SetCart(carts, u, safeCart)
           /\ currentCart' = safeCart
           /\ log' = Append(log, Event(c, "confirm", u, safeCart))
    /\ calls' = [calls EXCEPT ![c].pc = "resolved"]
    /\ UNCHANGED <<db, loading, faults, entity, entityLog, responses,
                   adapterVars, genVars,
                   diVars, repoVars>>

\* mutant of Rollback: the catch rethrows without restoring the snapshot
RollbackKeepsOptimistic(c) ==
    /\ calls[c].pc = "failed"
    /\ calls[c].kind = "addToCartOptimistic"
    /\ log' = Append(log, Event(c, "rollback", calls[c].userId,
                                calls[c].snapshot))
    /\ calls' = [calls EXCEPT ![c].pc = "rejected",
                              ![c].thrown = calls[c].error]
    /\ UNCHANGED <<db, carts, currentCart, loading, faults, entity, entityLog, responses,
                   adapterVars, genVars,
                   diVars, repoVars>>

\* catch of addToCartOptimistic: restore the snapshot, rethrow
Rollback(c) ==
    /\ calls[c].pc = "failed"
    /\ calls[c].kind = "addToCartOptimistic"
    /\ LET u == calls[c].userId
           cartSnapshot == calls[c].snapshot
       IN  /\ carts' = SetCart(carts, u, cartSnapshot)
           /\ currentCart' = cartSnapshot
           /\ log' = Append(log, Event(c, "rollback", u, cartSnapshot))
    /\ calls' = [calls EXCEPT ![c].pc = "rejected",
                              ![c].thrown = calls[c].error]
    /\ UNCHANGED <<db, loading, faults, entity, entityLog, responses,
                   adapterVars, genVars,
                   diVars, repoVars>>

\* mutant of Rethrow: the catch logs the error and returns normally
RethrowSwallows(c) ==
    /\ calls[c].pc = "failed"
    /\ calls[c].kind \in {"loadCart", "addToCart"}
    /\ calls' = [calls EXCEPT ![c].pc = "resolved"]
    /\ log' = Append(log, Event(c, "rethrow", calls[c].userId, <<>>))
    /\ UNCHANGED <<db, carts, currentCart, loading, faults, entity, entityLog, responses,
                   adapterVars, genVars,
                   diVars, repoVars>>

\* catch of loadCart and addToCart: log and rethrow
Rethrow(c) ==
    /\ calls[c].pc = "failed"
    /\ calls[c].kind \in {"loadCart", "addToCart"}
    /\ calls' = [calls EXCEPT ![c].pc = "rejected",
                              ![c].thrown = calls[c].error]
    /\ log' = Append(log, Event(c, "rethrow", calls[c].userId, <<>>))
    /\ UNCHANGED <<db, carts, currentCart, loading, faults, entity, entityLog, responses,
                   adapterVars, genVars,
                   diVars, repoVars>>

\* User and product names are interchangeable, so the first call of a
\* behaviour is enumerated for one user and one product only.
UsersFor(c) == IF c = 1 THEN {"u1"} ELSE Users

ProductsFor(c) == IF c = 1 THEN {"p1"} ELSE Products

\* the steps that continue a call of addToCartOptimistic
ContinueOptimistic(c) ==
    \/ ExecAddSave(c)
    \/ Reload(c)
    \/ Confirm(c)
    \/ Rollback(c)

\* the steps that continue a call of the store
Continue(c) ==
    \/ ContinueOptimistic(c)
    \/ Rethrow(c)

\* the store with calls of addToCartOptimistic only
NextOptimistic ==
    \E c \in CallIds :
        \/ \E u \in UsersFor(c), p \in ProductsFor(c), s \in FormQtyInputs :
               StartOptimistic(c, u, p, s)
        \/ ContinueOptimistic(c)

\* the store as the useCart hook drives it: loadCart and addToCartOptimistic
Next ==
    \E c \in CallIds :
        \/ \E u \in UsersFor(c) : StartLoadCart(c, u)
        \/ \E u \in UsersFor(c), p \in ProductsFor(c), s \in FormQtyInputs :
               StartOptimistic(c, u, p, s)
        \/ Continue(c)

\* the store with all three of its actions
NextStore ==
    \E c \in CallIds :
        \/ \E u \in UsersFor(c) : StartLoadCart(c, u)
        \/ \E u \in UsersFor(c), p \in ProductsFor(c), q \in QtyInputs :
               StartAddToCart(c, u, p, q)
        \/ \E u \in UsersFor(c), p \in ProductsFor(c), s \in FormQtyInputs :
               StartOptimistic(c, u, p, s)
        \/ Continue(c)

Spec == Init /\ [][Next]_vars

SpecStore == Init /\ [][NextStore]_vars

SpecOptimistic == Init /\ [][NextOptimistic]_vars

\* the event loop runs every continuation whose promise has settled
FairSpec == SpecOptimistic /\ \A c \in CallIds : WF_vars(ContinueOptimistic(c))

\* ----------------------------------------------- useAddToCart, the button
HookUserId == "u1"      \* the userId the hook instance was created with

\* addToCart(productId, qty) of the hook, up to the await of execute
HookAddToCart(c, p, q) ==
    /\ CanStart(c)
    /\ loading' = TRUE
    /\ \E outcome \in Outcomes :
         /\ Fault(outcome)
         /\ calls' = [calls EXCEPT ![c] =
             ExecStart([IdleCall EXCEPT !.kind = "hook",
                                        !.userId = HookUserId,
                                        !.productId = p, !.qty = q],
                       outcome)]
    /\ UNCHANGED <<db, carts, currentCart, log, entity, entityLog, responses,
                   adapterVars, genVars,
                   diVars, repoVars>>

\* finally { setLoading(false) }, then the result or the error goes on
HookFinally(c) ==
    /\ calls[c].kind = "hook"
    /\ calls[c].pc \in {"execSaved", "failed"}
    /\ loading' = FALSE
    /\ calls' = [calls EXCEPT
           ![c].pc = IF calls[c].pc = "failed" THEN "rejected" ELSE "resolved",
           ![c].thrown = calls[c].error]
    /\ UNCHANGED <<db, carts, currentCart, log, faults, entity, entityLog, responses,
                   adapterVars, genVars,
                   diVars, repoVars>>

\* AddToCartButton: disabled={loading}, label by loading
ButtonDisabled == loading

ButtonLabel == IF loading THEN "Adding..." ELSE "Add to cart"

\* onClick={() => addToCart(productId)}: a disabled button takes no click
ClickButton(c, p) ==
    /\ ~ButtonDisabled
    /\ HookAddToCart(c, p, 1)

NextHook ==
    \E c \in CallIds :
        \/ \E p \in Products, q \in HookQtyInputs : HookAddToCart(c, p, q)
        \/ \E p \in Products : ClickButton(c, p)
        \/ ExecAddSave(c)
        \/ HookFinally(c)

SpecHook == Init /\ [][NextHook]_vars

FairSpecHook == SpecHook /\ \A c \in CallIds :
    WF_vars(ExecAddSave(c) \/ HookFinally(c))

\* ------------------------------------------------- stand-alone Cart entity
\* cart.addItem(productId, qty) on one Cart object
EntityAddItem(p, q) ==
    /\ Len(entityLog) < MaxAdds
    /\ LET r == AddItem(entity, p, q)
       IN  /\ entity' = r.items
           /\ entityLog' = Append(entityLog,
                  [productId |-> p, qty |-> q, threw |-> r.threw,
                   error |-> r.error, before |-> GetItems(entity)])
    /\ UNCHANGED <<db, carts, currentCart, loading, calls, log, faults, responses,
                   adapterVars, genVars,
                   diVars, repoVars>>

NextCart == \E p \in EntityProducts, q \in EntityQtyInputs : EntityAddItem(p, q)

SpecCart == Init /\ [][NextCart]_vars

\* ------------------------------------------------------ API route handlers
\* the JSON bodies a POST /api/cart/:userId request carries; request.json()
\* rejects for a body that is not JSON
MalformedBody == [productId |-> "p1", qty |-> 0, malformed |-> TRUE]

ApiQtyInputs == {-1, 0, 1}

ApiBodies(c) ==
    {[productId |-> p, qty |-> q, malformed |-> FALSE] :
        p \in ProductsFor(c), q \in ApiQtyInputs} \cup {MalformedBody}

JsonError == "Unexpected token in JSON"

GetCartRoute == "GET /api/cart/:userId"
PostCartRoute == "POST /api/cart/:userId"
GetUsersRoute == "GET /api/users"

ApiKinds == {GetCartRoute, PostCartRoute, GetUsersRoute}

\* InMemoryUserDB.users
InMemoryUsers ==
    <<[id |-> "1", email |-> "user@example.com", name |-> "John Doe"],
      [id |-> "2", email |-> "admin@example.com", name |-> "Admin User"]>>

\* InMemoryUserDB.findByEmail: users.find(u => u.email === email) || null
FindByEmail(email) ==
    SelectSeq(InMemoryUsers, LAMBDA u : u.email = email)

\* GetUsers.execute: both lookups, the misses filtered out
GetUsersResult ==
    FindByEmail("user@example.com") \o FindByEmail("admin@example.com")

\* NextResponse.json(body, {status})
JsonResponse(c, status, key, text, items) ==
    [call |-> c, route |-> calls[c].kind, status |-> status,
     body |-> [key |-> key, text |-> text, items |-> items],
     cause |-> calls[c].error]

\* GET /api/cart/:userId up to the await of repo.load
ApiGetCart(c, u) ==
    /\ CanStart(c)
    /\ \E outcome \in Outcomes :
         /\ Fault(outcome)
         /\ LET base == [IdleCall EXCEPT !.kind = GetCartRoute, !.userId = u]
                r == RepoLoad(u, outcome)
            IN  calls' = [calls EXCEPT ![c] =
                    IF r.ok THEN [base EXCEPT !.pc = "apiLoaded",
                                              !.loaded = r.cart]
                    ELSE [base EXCEPT !.pc = "failed", !.error = RepoError]]
    /\ UNCHANGED <<db, carts, currentCart, loading, log, entity, entityLog,
                   responses, adapterVars, genVars,
                   diVars, repoVars>>

\* POST /api/cart/:userId: await request.json(), then useCase.execute up to
\* the await of repo.load
ApiPostCart(c, u, body) ==
    /\ CanStart(c)
    /\ LET base == [IdleCall EXCEPT !.kind = PostCartRoute, !.userId = u,
                                    !.productId = body.productId,
                                    !.qty = body.qty]
       IN  IF body.malformed
           THEN /\ calls' = [calls EXCEPT ![c] =
                       [base EXCEPT !.pc = "failed", !.error = JsonError]]
                /\ faults' = faults
           ELSE \E outcome \in Outcomes :
                  /\ Fault(outcome)
                  /\ calls' = [calls EXCEPT ![c] = ExecStart(base, outcome)]
    /\ UNCHANGED <<db, carts, currentCart, loading, log, entity, entityLog,
                   responses, adapterVars, genVars,
                   diVars, repoVars>>

\* GET /api/users up to the await of useCase.execute
ApiGetUsers(c) ==
    /\ CanStart(c)
    /\ \E outcome \in Outcomes :
         /\ Fault(outcome)
         /\ LET base == [IdleCall EXCEPT !.kind = GetUsersRoute]
            IN  calls' = [calls EXCEPT ![c] =
                    IF outcome = "ok"
                    THEN [base EXCEPT !.pc = "usersLoaded",
                                      !.result = GetUsersResult]
                    ELSE [base EXCEPT !.pc = "failed", !.error = RepoError]]
    /\ UNCHANGED <<db, carts, currentCart, loading, log, entity, entityLog,
                   responses, adapterVars, genVars,
                   diVars, repoVars>>

\* the fixed message of a route's catch block
GenericMessage(route) ==
    CASE route = GetCartRoute -> "Failed to load cart"
      [] route = PostCartRoute -> "Failed to add item"
      [] route = GetUsersRoute -> "Failed to fetch users"

\* the status of a route's catch block
CatchStatus(route, error) == 500

\* mutant of ApiRespond: the catch block answers with the error's message
ApiRespondLeaksError(c) ==
    /\ calls[c].kind \in ApiKinds
    /\ calls[c].pc \in {"apiLoaded", "execSaved", "usersLoaded", "failed"}
    /\ LET call == calls[c]
       IN  responses' = Append(responses,
             CASE call.pc = "apiLoaded" ->
                    JsonResponse(c, 200, "items", "",
                                 GetCartResult(call.loaded))
               [] call.pc = "execSaved" ->
                    JsonResponse(c, 200, "success", "", <<>>)
               [] call.pc = "usersLoaded" ->
                    JsonResponse(c, 200, "users", "", call.result)
               [] call.pc = "failed" ->
                    JsonResponse(c, CatchStatus(call.kind, call.error),
                                 "error", call.error, <<>>))
    /\ calls' = [calls EXCEPT ![c].pc = "responded"]
    /\ UNCHANGED <<db, carts, currentCart, loading, log, faults, entity,
                   entityLog, adapterVars, genVars,
                   diVars, repoVars>>

\* the return of a route handler: the response of the try block, or the
\* response of the catch block
ApiRespond(c) ==
    /\ calls[c].kind \in ApiKinds
    /\ calls[c].pc \in {"apiLoaded", "execSaved", "usersLoaded", "failed"}
    /\ LET call == calls[c]
       IN  responses' = Append(responses,
             CASE call.pc = "apiLoaded" ->
                    JsonResponse(c, 200, "items", "",
                                 GetCartResult(call.loaded))
               [] call.pc = "execSaved" ->
                    JsonResponse(c, 200, "success", "", <<>>)
               [] call.pc = "usersLoaded" ->
                    JsonResponse(c, 200, "users", "", call.result)
               [] call.pc = "failed" ->
                    JsonResponse(c, CatchStatus(call.kind, call.error),
                                 "error", GenericMessage(call.kind), <<>>))
    /\ calls' = [calls EXCEPT ![c].pc = "responded"]
    /\ UNCHANGED <<db, carts, currentCart, loading, log, faults, entity,
                   entityLog, adapterVars, genVars,
                   diVars, repoVars>>

NextApi ==
    \E c \in CallIds :
        \/ \E u \in UsersFor(c) : ApiGetCart(c, u)
        \/ \E u \in UsersFor(c), body \in ApiBodies(c) : ApiPostCart(c, u, body)
        \/ ApiGetUsers(c)
        \/ ExecAddSave(c)
        \/ ApiRespond(c)

SpecApi == Init /\ [][NextApi]_vars

\* ------------------------------------------------ infrastructure adapter
\* the typed exceptions of the adapter
ExternalBadRequest == "ExternalBadRequest"
ExternalRateLimitError == "ExternalRateLimitError"
ExternalServerError == "ExternalServerError"
ExternalServiceError == "ExternalServiceError"

TypedErrors ==
    {ExternalBadRequest, ExternalRateLimitError, ExternalServerError,
     ExternalServiceError}

\* what one self.http.request call can do: return a response, or raise
TimeoutException == "httpx.TimeoutException"
ConnectError == "httpx.ConnectError"
OtherException == "httpx.ReadError"

RetriedExceptions == {TimeoutException, ConnectError}

RequestStatuses == {200, 503}

AttemptOutcomes ==
    {[kind |-> "response", status |-> st] : st \in RequestStatuses}
    \cup {[kind |-> e, status |-> 0] :
             e \in RetriedExceptions \cup {OtherException}}

\* for attempt in range(3)
Attempts == 3

\* 0.3 * (2 ** attempt) seconds, in milliseconds
Backoff(attempt) == 300 * (2 ^ attempt)

AdapterCalls == Len(requestLog) + Len(intentLog)

\* a finished _request call
RequestDone(outcomes, sleeps, returned, raised) ==
    [outcomes |-> outcomes, sleeps |-> sleeps, returned |-> returned,
     raised |-> raised]

\* _request(method, path): entering the for loop
RequestStart ==
    /\ request.pc = "idle"
    /\ AdapterCalls < MaxAdapterCalls
    /\ request' = [IdleRequest EXCEPT !.pc = "attempting"]
    /\ UNCHANGED <<db, carts, currentCart, loading, calls, log, faults, entity,
                   entityLog, responses, requestLog, intentLog, genVars,
                   diVars, repoVars>>

\* mutant of RequestAttempt: the last-attempt test is off by one, so the
\* third failure is slept on instead of raised
RequestAttemptOnceMore(o) ==
    /\ request.pc = "attempting"
    /\ LET outcomes == Append(request.outcomes, o)
       IN  CASE o.kind = "response" ->
                  /\ requestLog' = Append(requestLog,
                        RequestDone(outcomes, request.sleeps, o.status, NoError))
                  /\ request' = IdleRequest
             [] o.kind \in RetriedExceptions /\ request.attempt = 3 ->
                  /\ requestLog' = Append(requestLog,
                        RequestDone(outcomes, request.sleeps, 0,
                                    ExternalServiceError))
                  /\ request' = IdleRequest
             [] o.kind \in RetriedExceptions /\ request.attempt # 3 ->
                  /\ request' = [request EXCEPT !.pc = "sleeping",
                                                !.outcomes = outcomes]
                  /\ requestLog' = requestLog
             [] OTHER ->
                  /\ requestLog' = Append(requestLog,
                        RequestDone(outcomes, request.sleeps, 0, o.kind))
                  /\ request' = IdleRequest
    /\ UNCHANGED <<db, carts, currentCart, loading, calls, log, faults, entity,
                   entityLog, responses, intentLog, genVars,
                   diVars, repoVars>>

\* one pass of the loop body: self.http.request(...) returns a response,
\* which _request returns at once, or raises; a timeout or connection error
\* is retried unless attempt == 2, any other exception propagates
RequestAttempt(o) ==
    /\ request.pc = "attempting"
    /\ LET outcomes == Append(request.outcomes, o)
       IN  CASE o.kind = "response" ->
                  /\ requestLog' = Append(requestLog,
                        RequestDone(outcomes, request.sleeps, o.status, NoError))
                  /\ request' = IdleRequest
             [] o.kind \in RetriedExceptions /\ request.attempt = 2 ->
                  /\ requestLog' = Append(requestLog,
                        RequestDone(outcomes, request.sleeps, 0,
                                    ExternalServiceError))
                  /\ request' = IdleRequest
             [] o.kind \in RetriedExceptions /\ request.attempt # 2 ->
                  /\ request' = [request EXCEPT !.pc = "sleeping",
                                                !.outcomes = outcomes]
                  /\ requestLog' = requestLog
             [] OTHER ->
                  /\ requestLog' = Append(requestLog,
                        RequestDone(outcomes, request.sleeps, 0, o.kind))
                  /\ request' = IdleRequest
    /\ UNCHANGED <<db, carts, currentCart, loading, calls, log, faults, entity,
                   entityLog, responses, intentLog, genVars,
                   diVars, repoVars>>

\* time.sleep(0.3 * (2 ** attempt)), then the next value of range(3); a
\* loop that runs out of values falls through and _request returns None
RequestSleep ==
    /\ request.pc = "sleeping"
    /\ LET sleeps == Append(request.sleeps, Backoff(request.attempt))
       IN  IF request.attempt + 1 < Attempts
           THEN /\ request' = [request EXCEPT !.pc = "attempting",
                                              !.sleeps = sleeps,
                                              !.attempt = @ + 1]
                /\ requestLog' = requestLog
           ELSE /\ requestLog' = Append(requestLog,
                      RequestDone(request.outcomes, sleeps, 0, NoError))
                /\ request' = IdleRequest
    /\ UNCHANGED <<db, carts, currentCart, loading, calls, log, faults, entity,
                   entityLog, responses, intentLog, genVars,
                   diVars, repoVars>>

\* the keys of the DTO and of a raw payment-intent response
DtoKeys == {"id", "status", "amount", "currency"}

RawKeys == DtoKeys \cup {"client_secret"}

None == "None"

\* the JSON bodies an external response can carry
RawResponses ==
    {[k \in RawKeys |-> k], [k \in DtoKeys |-> k],
     [k \in {"id", "client_secret"} |-> k]}

NotJson == [k \in {"html"} |-> "html"]

IntentStatuses == {200, 302, 399, 400, 401, 404, 429, 499, 500, 503}

\* mutant of _map_error: the >= 500 test comes first and 429 is not told
\* apart from the other client errors
MapErrorNoRateLimit(status_code) ==
    IF status_code >= 500 THEN ExternalServerError
    ELSE IF status_code = 400 THEN ExternalBadRequest
    ELSE ExternalServiceError

\* _map_error(response): the exception it raises
MapError(status_code) ==
    IF status_code = 400 THEN ExternalBadRequest
    ELSE IF status_code = 429 THEN ExternalRateLimitError
    ELSE IF status_code >= 500 THEN ExternalServerError
    ELSE ExternalServiceError

\* _to_dto(data): data.get(k) for the four keys
ToDto(data) ==
    [k \in DtoKeys |-> IF k \in DOMAIN data THEN data[k] ELSE None]

\* create_payment_intent: self.http.post(...) returns a response with a
\* status and a body, or raises
CreatePaymentIntent(o, data) ==
    /\ request.pc = "idle"
    /\ AdapterCalls < MaxAdapterCalls
    /\ intentLog' = Append(intentLog,
          IF o.kind # "response"
          THEN [status |-> 0, raw |-> data, raised |-> o.kind,
                returned |-> FALSE, result |-> ToDto(<<>>)]
          ELSE IF o.status >= 400
          THEN [status |-> o.status, raw |-> data,
                raised |-> MapError(o.status),
                returned |-> FALSE, result |-> ToDto(<<>>)]
          ELSE IF data = NotJson
          THEN [status |-> o.status, raw |-> data,
                raised |-> "JSONDecodeError",
                returned |-> FALSE, result |-> ToDto(<<>>)]
          ELSE [status |-> o.status, raw |-> data, raised |-> NoError,
                returned |-> TRUE, result |-> ToDto(data)])
    /\ UNCHANGED <<db, carts, currentCart, loading, calls, log, faults, entity,
                   entityLog, responses, request, requestLog, genVars,
                   diVars, repoVars>>

IntentOutcomes ==
    {[kind |-> "response", status |-> st] : st \in IntentStatuses}
    \cup {[kind |-> TimeoutException, status |-> 0]}

NextAdapter ==
    \/ RequestStart
    \/ \E o \in AttemptOutcomes : RequestAttempt(o)
    \/ RequestSleep
    \/ \E o \in IntentOutcomes, data \in RawResponses \cup {NotJson} :
          CreatePaymentIntent(o, data)

SpecAdapter == Init /\ [][NextAdapter]_vars

\* ------------------------------------------------- class generation workflow
\* identifiers are sequences of characters
UpperLetters ==
    <<"A", "B", "C", "D", "E", "F", "G", "H", "I", "J", "K", "L", "M",
      "N", "O", "P", "Q", "R", "S", "T", "U", "V", "W", "X", "Y", "Z">>

LowerLetters ==
    <<"a", "b", "c", "d", "e", "f", "g", "h", "i", "j", "k", "l", "m",
      "n", "o", "p", "q", "r", "s", "t", "u", "v", "w", "x", "y", "z">>

IsUpper(ch) == \E i \in 1..Len(UpperLetters) : UpperLetters[i] = ch

ToLower(ch) ==
    IF IsUpper(ch)
    THEN LowerLetters[CHOOSE i \in 1..Len(UpperLetters) : UpperLetters[i] = ch]
    ELSE ch

RECURSIVE SnakeCase(_)
\* snake_case(name): an underscore before every capital but the first,
\* all letters lowered
SnakeCase(name) ==
    IF name = <<>> THEN <<>>
    ELSE LET n == Len(name)
             front == SubSeq(name, 1, n - 1)
         IN  SnakeCase(front)
                \o (IF IsUpper(name[n]) /\ n > 1 THEN <<"_">> ELSE <<>>)
                \o <<ToLower(name[n])>>

HasPrefix(name, w) == Len(name) >= Len(w) /\ SubSeq(name, 1, Len(w)) = w

HasSuffix(name, w) ==
    Len(name) >= Len(w) /\ SubSeq(name, Len(name) - Len(w) + 1, Len(name)) = w

CrudPrefixes ==
    {<<"C", "r", "e", "a", "t", "e">>, <<"U", "p", "d", "a", "t", "e">>,
     <<"D", "e", "l", "e", "t", "e">>}

StrippedSuffixes ==
    {<<"R", "e", "q", "u", "e", "s", "t">>,
     <<"R", "e", "s", "p", "o", "n", "s", "e">>,
     <<"U", "s", "e", "C", "a", "s", "e">>}

StripPrefix(name) ==
    IF \E w \in CrudPrefixes : HasPrefix(name, w)
    THEN LET w == CHOOSE w \in CrudPrefixes : HasPrefix(name, w)
         IN  SubSeq(name, Len(w) + 1, Len(name))
    ELSE name

StripSuffix(name) ==
    IF \E w \in StrippedSuffixes : HasSuffix(name, w)
    THEN LET w == CHOOSE w \in StrippedSuffixes : HasSuffix(name, w)
         IN  SubSeq(name, 1, Len(name) - Len(w))
    ELSE name

\* {base_name}: class_name with its CRUD prefix and its suffix stripped
BaseName(class_name) == StripSuffix(StripPrefix(class_name))

\* the values of `layer`, as the segments around "/"
WorkflowLayers ==
    {<<"domain", "entity">>, <<"domain", "service">>,
     <<"application", "interface">>, <<"application", "use_case">>,
     <<"infrastructure", "model">>, <<"infrastructure", "repository">>,
     <<"infrastructure", "adapter">>,
     <<"presentation", "schema">>, <<"presentation", "dependency">>,
     <<"presentation", "router">>}

LayerEnum ==
    WorkflowLayers \cup
    {<<"application", "store">>, <<"presentation", "component">>,
     <<"presentation", "hook">>}

\* `layer` starts with "<prefix>/"
StartsWith(layer, prefix) == Len(layer) >= 2 /\ layer[1] = prefix

NoWorkflow == "none"

\* mutant of Route: the infrastructure test matches any layer that is not
\* one of the other three, and presentation items go to the domain workflow
RouteByElimination(layer) ==
    IF StartsWith(layer, "presentation") THEN "/generate-domain-class"
    ELSE IF StartsWith(layer, "domain") THEN "/generate-domain-class"
    ELSE IF StartsWith(layer, "application") THEN "/generate-application-class"
    ELSE "/generate-infrastructure-class"

\* 0-generate-class, Rules: Routing
Route(layer) ==
    IF StartsWith(layer, "infrastructure") THEN "/generate-infrastructure-class"
    ELSE IF StartsWith(layer, "presentation") THEN "/generate-presentation-class"
    ELSE IF StartsWith(layer, "domain") THEN "/generate-domain-class"
    ELSE IF StartsWith(layer, "application") THEN "/generate-application-class"
    ELSE NoWorkflow

\* the infrastructure router's sub-workflows
InfraRoute(layer) ==
    IF layer \in {<<"infrastructure", "model">>,
                  <<"infrastructure", "repository">>}
    THEN "/generate-infra-persistence"
    ELSE IF layer = <<"infrastructure", "adapter">>
    THEN "/generate-infra-adapter"
    ELSE NoWorkflow

\* Scope rule of each workflow: the layers it processes, all others ignored
Scope(workflow) ==
    CASE workflow = "/generate-domain-class" ->
            {<<"domain", "entity">>, <<"domain", "service">>}
      [] workflow = "/generate-application-class" ->
            {<<"application", "interface">>, <<"application", "use_case">>}
      [] workflow = "/generate-infrastructure-class" ->
            {l \in WorkflowLayers : InfraRoute(l) # NoWorkflow}
      [] workflow = "/generate-presentation-class" ->
            {<<"presentation", "schema">>, <<"presentation", "dependency">>,
             <<"presentation", "router">>}
      [] OTHER -> {}

Path(prefix, stem) == [prefix |-> prefix, stem |-> stem, ext |-> ".py"]

NoPath == [prefix |-> "", stem |-> <<>>, ext |-> ""]

\* Location rule of the code file of each layer
CodePath(layer, class_name) ==
    LET snake == SnakeCase(class_name)
        snake_base == SnakeCase(BaseName(class_name))
    IN  CASE layer = <<"domain", "entity">> ->
                Path("backend/app/domain/entities/", snake)
          [] layer = <<"domain", "service">> ->
                Path("backend/app/domain/services/", snake)
          [] layer = <<"application", "interface">> ->
                Path("backend/app/application/interfaces/", snake_base)
          [] layer = <<"application", "use_case">> ->
                Path("backend/app/application/use_cases/", snake)
          [] layer = <<"infrastructure", "model">> ->
                Path("backend/app/infrastructure/models/", snake)
          [] layer = <<"infrastructure", "repository">> ->
                Path("backend/app/infrastructure/repositories/", snake)
          [] layer = <<"infrastructure", "adapter">> ->
                Path("backend/app/infrastructure/adapters/", snake)
          [] layer = <<"presentation", "schema">> ->
                Path("backend/app/presentation/api/v1/schemas/", snake_base)
          [] layer = <<"presentation", "dependency">> ->
                Path("backend/app/presentation/api/v1/dependencies/", snake_base)
          [] layer = <<"presentation", "router">> ->
                Path("backend/app/presentation/api/v1/routers/", snake_base)
          [] OTHER -> NoPath

\* Location rule of the test file of each layer
TestPath(layer, class_name) ==
    LET snake == SnakeCase(class_name)
        snake_base == SnakeCase(BaseName(class_name))
    IN  CASE layer = <<"domain", "entity">> ->
                Path("backend/tests/unit/test_entities_", snake)
          [] layer = <<"domain", "service">> ->
                Path("backend/tests/unit/test_services_", snake)
          [] layer = <<"application", "use_case">> ->
                Path("backend/tests/unit/application/test_use_case_", snake)
          [] layer = <<"infrastructure", "model">> ->
                Path("backend/tests/unit/infrastructure/models/test_", snake)
          [] layer = <<"infrastructure", "repository">> ->
                Path("backend/tests/unit/infrastructure/repositories/test_",
                     snake)
          [] layer = <<"infrastructure", "adapter">> ->
                Path("backend/tests/unit/infrastructure/adapters/test_", snake)
          [] layer \in {<<"presentation", "schema">>,
                        <<"presentation", "dependency">>,
                        <<"presentation", "router">>} ->
                [prefix |-> "backend/tests/e2e/test_", stem |-> snake_base,
                 ext |-> "_api.py"]
          [] OTHER -> NoPath

RawUrlBase == "https://raw.githubusercontent.com/Kira7dn/fastapi_template/main/"

RawUrl(path) == IF path = NoPath THEN NoPath
                ELSE [path EXCEPT !.prefix = RawUrlBase \o @]

NoDescriptor ==
    [code_path |-> NoPath, code_raw_url |-> NoPath,
     test_path |-> NoPath, test_raw_url |-> NoPath]

\* a sub-workflow run on one item: the artifact descriptor it appends, or
\* nothing for an item outside its Scope
Generate(workflow, spec) ==
    IF spec.layer \in Scope(workflow)
    THEN [ignored |-> FALSE,
          descriptor |->
             [code_path |-> CodePath(spec.layer, spec.class_name),
              code_raw_url |-> RawUrl(CodePath(spec.layer, spec.class_name)),
              test_path |-> TestPath(spec.layer, spec.class_name),
              test_raw_url |-> RawUrl(TestPath(spec.layer, spec.class_name))]]
    ELSE [ignored |-> TRUE, descriptor |-> NoDescriptor]

SchemaError == "SchemaError"
NamingError == "NamingError"
RoutingError == "RoutingError"

\* the layers whose `dependencies` are checked
DependencyLayers ==
    {<<"application", "use_case">>, <<"infrastructure", "adapter">>}

\* mutant of InterfaceName: only the leading I is tested
InterfaceNameLeadingI(dep) == Len(dep) >= 1 /\ dep[1] = "I"

\* the interface-naming convention: I followed by an uppercase letter
InterfaceName(dep) == Len(dep) >= 2 /\ dep[1] = "I" /\ IsUpper(dep[2])

\* Layer Schema Validator: validate(spec)
Validate(spec) ==
    IF spec.class_name = <<>> \/ spec.layer \notin LayerEnum
    THEN SchemaError
    ELSE IF spec.layer \in DependencyLayers
            /\ \E i \in 1..Len(spec.dependencies) :
                   ~InterfaceName(spec.dependencies[i])
    THEN SchemaError
    ELSE NoError

\* Naming Resolver: resolve(class_name) fails on an empty base
Resolve(spec) == IF BaseName(spec.class_name) = <<>> THEN NamingError ELSE NoError

\* the per-item pipeline: validator, resolver, dispatcher, generator
Pipeline(spec) ==
    IF Validate(spec) # NoError
    THEN [error |-> Validate(spec), workflow |-> NoWorkflow,
          generated |-> FALSE, descriptor |-> NoDescriptor]
    ELSE IF Resolve(spec) # NoError
    THEN [error |-> Resolve(spec), workflow |-> NoWorkflow,
          generated |-> FALSE, descriptor |-> NoDescriptor]
    ELSE IF Route(spec.layer) = NoWorkflow
    THEN [error |-> RoutingError, workflow |-> NoWorkflow,
          generated |-> FALSE, descriptor |-> NoDescriptor]
    ELSE LET g == Generate(Route(spec.layer), spec)
         IN  [error |-> NoError, workflow |-> Route(spec.layer),
              generated |-> ~g.ignored, descriptor |-> g.descriptor]

\* Artifact Registry
RegistryIndex(reg, class_name) ==
    IF \E i \in 1..Len(reg) : reg[i].class_name = class_name
    THEN CHOOSE i \in 1..Len(reg) : reg[i].class_name = class_name
    ELSE 0

\* mutant of Upsert: the entry is written over the first entry of the
\* registry, whichever class that entry belongs to
UpsertOverwritesFirst(reg, spec, descriptor) ==
    LET entry == [class_name |-> spec.class_name, layer |-> spec.layer,
                  descriptor |-> descriptor]
    IN  IF reg = <<>> THEN <<entry>> ELSE [reg EXCEPT ![1] = entry]

\* mutant of Upsert: every run appends a new entry
UpsertAppends(reg, spec, descriptor) ==
    Append(reg, [class_name |-> spec.class_name, layer |-> spec.layer,
                 descriptor |-> descriptor])

\* record or overwrite the entry of spec.class_name
Upsert(reg, spec, descriptor) ==
    LET entry == [class_name |-> spec.class_name, layer |-> spec.layer,
                  descriptor |-> descriptor]
        i == RegistryIndex(reg, spec.class_name)
    IN  IF i > 0 THEN [reg EXCEPT ![i] = entry] ELSE Append(reg, entry)

\* the files a generated item is written to, with the class they hold
Written(spec, descriptor) ==
    {[path |-> p, class_name |-> spec.class_name] :
        p \in {descriptor.code_path, descriptor.test_path} \ {NoPath}}

\* the ClassSpec items of the input batches
Name_Order == <<"O", "r", "d", "e", "r">>
Name_AddItem == <<"A", "d", "d", "I", "t", "e", "m">>
Name_Pay == <<"P", "a", "y">>
Name_ICartRepo == <<"I", "C", "a", "r", "t", "R", "e", "p", "o">>
Name_CartRepo == <<"C", "a", "r", "t", "R", "e", "p", "o">>
Name_Item == <<"I", "t", "e", "m">>

ClassSpec(class_name, layer, dependencies) ==
    [class_name |-> class_name, layer |-> layer, dependencies |-> dependencies]

ClassSpecs ==
    {ClassSpec(Name_Order, <<"domain", "entity">>, <<>>),
     ClassSpec(Name_Order, <<"presentation", "router">>, <<>>),
     ClassSpec(Name_AddItem, <<"application", "use_case">>, <<Name_ICartRepo>>),
     ClassSpec(Name_AddItem, <<"application", "use_case">>, <<Name_CartRepo>>),
     ClassSpec(Name_Pay, <<"infrastructure", "adapter">>, <<Name_ICartRepo>>),
     ClassSpec(Name_Pay, <<"infrastructure", "adapter">>,
               <<Name_ICartRepo, Name_Item>>),
     ClassSpec(Name_Order, <<"ui", "widget">>, <<>>)}

\* one item per value of the layer enum, with no dependencies
LayerSpecs == {ClassSpec(Name_Order, layer, <<>>) : layer \in LayerEnum}

\* the pipeline's result for each item, computed once
PipelineResults == [spec \in ClassSpecs \cup LayerSpecs |-> Pipeline(spec)]

\* the batch driver takes a new JSON array
StartBatch ==
    /\ batch.pc \in {"idle", "done"}
    /\ batch' = [pc |-> "running", items |-> <<>>, before |-> registry,
                 filesBefore |-> files, resubmit |-> FALSE]
    /\ batches' = <<>>
    /\ genErrors' = <<>>
    /\ output' = <<>>
    /\ UNCHANGED <<db, carts, currentCart, loading, calls, log, faults, entity,
                   entityLog, responses, adapterVars, registry, files,
                   diVars, repoVars>>

\* what the driver carries from item to item
Carried(reg, fs, errors, out) ==
    [registry |-> reg, files |-> fs, genErrors |-> errors, output |-> out]

\* mutant of ProcessOne: the first error ends the batch
ProcessOneAbortsOnError(st, spec, index) ==
    LET r == PipelineResults[spec]
    IN  IF st.genErrors # <<>> THEN st
        ELSE Carried(
               IF r.generated THEN Upsert(st.registry, spec, r.descriptor)
               ELSE st.registry,
               IF r.generated THEN st.files \cup Written(spec, r.descriptor)
               ELSE st.files,
               IF r.error # NoError
               THEN Append(st.genErrors,
                       [index |-> index, class_name |-> spec.class_name,
                        error |-> r.error])
               ELSE st.genErrors,
               Append(st.output,
                      [index |-> index, spec |-> spec, workflow |-> r.workflow,
                       generated |-> r.generated, descriptor |-> r.descriptor]))

\* one item of the batch: an error is recorded against the item and the
\* artifact fields are omitted, otherwise the descriptor is merged into the
\* output and the registry and the files are written
ProcessOne(st, spec, index) ==
    LET r == PipelineResults[spec]
    IN  Carried(
          IF r.generated THEN Upsert(st.registry, spec, r.descriptor)
          ELSE st.registry,
          IF r.generated THEN st.files \cup Written(spec, r.descriptor)
          ELSE st.files,
          IF r.error # NoError
          THEN Append(st.genErrors,
                  [index |-> index, class_name |-> spec.class_name,
                   error |-> r.error])
          ELSE st.genErrors,
          Append(st.output,
                 [index |-> index, spec |-> spec, workflow |-> r.workflow,
                  generated |-> r.generated, descriptor |-> r.descriptor]))

RECURSIVE ProcessFrom(_, _, _)
\* the items from position index on, in order
ProcessFrom(st, items, index) ==
    IF index > Len(items) THEN st
    ELSE ProcessFrom(ProcessOne(st, items[index], index), items, index + 1)

\* the driver reads the next item of the array and processes it
ProcessItem(spec) ==
    /\ batch.pc = "running"
    /\ Len(batch.items) < MaxBatchLen
    /\ LET st == ProcessOne(Carried(registry, files, genErrors, output),
                            spec, Len(batch.items) + 1)
       IN  /\ registry' = st.registry
           /\ files' = st.files
           /\ genErrors' = st.genErrors
           /\ output' = st.output
    /\ batch' = [batch EXCEPT !.items = Append(@, spec)]
    /\ UNCHANGED <<db, carts, currentCart, loading, calls, log, faults, entity,
                   entityLog, responses, adapterVars, batches,
                   diVars, repoVars>>

\* what is kept of a finished batch
FinishedBatch(items, st) ==
    [items |-> items, output |-> st.output, after |-> st.registry,
     filesAfter |-> st.files]

\* the end of the JSON array
FinishBatch ==
    /\ batch.pc = "running"
    /\ batch' = [batch EXCEPT !.pc = "done"]
    /\ batches' = <<FinishedBatch(batch.items,
                                  Carried(registry, files, genErrors, output))>>
    /\ UNCHANGED <<db, carts, currentCart, loading, calls, log, faults, entity,
                   entityLog, responses, adapterVars, registry, files,
                   genErrors, output,
                   diVars, repoVars>>

\* the batch finished last
LastBatch == batches[Len(batches)]

\* the same JSON array is submitted again and processed from its first
\* item to its last
Resubmit ==
    /\ batch.pc = "done"
    /\ LET items == LastBatch.items
           st == ProcessFrom(Carried(registry, files, <<>>, <<>>), items, 1)
       IN  /\ registry' = st.registry
           /\ files' = st.files
           /\ genErrors' = st.genErrors
           /\ output' = st.output
           /\ batch' = [pc |-> "done", items |-> items, before |-> registry,
                        filesBefore |-> files, resubmit |-> TRUE]
           /\ batches' = <<LastBatch, FinishedBatch(items, st)>>
    /\ UNCHANGED <<db, carts, currentCart, loading, calls, log, faults, entity,
                   entityLog, responses, adapterVars,
                   diVars, repoVars>>

NextGen ==
    \/ StartBatch
    \/ \E spec \in ClassSpecs : ProcessItem(spec)
    \/ FinishBatch
    \/ Resubmit

SpecGen == Init /\ [][NextGen]_vars

\* the first batch submitted to the driver
FirstBatch == batch.pc = "idle" /\ StartBatch

\* one batch whose items take every value of the layer enum
NextLayers ==
    \/ FirstBatch
    \/ \E spec \in LayerSpecs : ProcessItem(spec)
    \/ FinishBatch

SpecLayers == Init /\ [][NextLayers]_vars

\* ------------------------------------------------ dependency/cart.ts
\* mutant of getCartRepo: a repository is constructed on every call
getCartRepoAlwaysNew(repo, count) ==
    [cartRepo |-> count + 1, constructed |-> count + 1]

\* getCartRepo(): if (!cartRepo) cartRepo = new CartRepoHttp(); the result
\* is the value of cartRepo and the number of objects constructed so far
getCartRepo(repo, count) ==
    IF repo = Undefined
    THEN [cartRepo |-> count + 1, constructed |-> count + 1]
    ELSE [cartRepo |-> repo, constructed |-> count]

DiEvent(ev, i, u, items) ==
    [ev |-> ev, useCase |-> i, userId |-> u, items |-> items]

\* new <kind>(getCartRepo())
Factory(kind) ==
    /\ Len(useCases) < MaxUseCases
    /\ LET r == getCartRepo(cartRepo, constructed)
       IN  /\ cartRepo' = r.cartRepo
           /\ constructed' = r.constructed
           /\ useCases' = Append(useCases, [kind |-> kind, repo |-> r.cartRepo])
           /\ diLog' = Append(diLog,
                              DiEvent("create", Len(useCases) + 1, "u1", <<>>))
    /\ UNCHANGED <<db, carts, currentCart, loading, calls, log, faults, entity,
                   entityLog, responses, adapterVars, genVars, diRuns,
                   repoVars>>

createAddItemToCart == Factory("AddItemToCart")

createGetCart == Factory("GetCart")

\* execute(userId, productId, qty) on the AddItemToCart object i, up to its
\* first await: every CartRepoHttp reads the one static InMemoryCartDB.data
DiExecuteAdd(i, u, p, q) ==
    /\ i \in 1..Len(useCases)
    /\ useCases[i].kind = "AddItemToCart"
    /\ Len(diRuns) < MaxRuns
    /\ diRuns' = Append(diRuns,
                        [useCase |-> i, userId |-> u, productId |-> p,
                         qty |-> q, pc |-> "loaded", loaded |-> DBGet(db, u)])
    /\ UNCHANGED <<db, carts, currentCart, loading, calls, log, faults, entity,
                   entityLog, responses, adapterVars, genVars, cartRepo,
                   constructed, useCases, diLog, repoVars>>

\* the rest of that execute: addItem, save, return cart.getItems()
DiExecuteSave(r) ==
    /\ r \in 1..Len(diRuns)
    /\ diRuns[r].pc = "loaded"
    /\ LET run == diRuns[r]
           cart == IF run.loaded.isNull THEN NewCart ELSE run.loaded.items
           a == AddItem(cart, run.productId, run.qty)
       IN  IF a.threw
           THEN /\ db' = db
                /\ diRuns' = [diRuns EXCEPT ![r].pc = "failed"]
                /\ diLog' = Append(diLog,
                       DiEvent("threw", run.useCase, run.userId, <<>>))
           ELSE /\ db' = DBSet(db, run.userId, a.items)
                /\ diRuns' = [diRuns EXCEPT ![r].pc = "done"]
                /\ diLog' = Append(diLog,
                       DiEvent("added", run.useCase, run.userId,
                               GetItems(a.items)))
    /\ UNCHANGED <<carts, currentCart, loading, calls, log, faults, entity,
                   entityLog, responses, adapterVars, genVars, cartRepo,
                   constructed, useCases, repoVars>>

\* execute(userId) on the GetCart object i: the repository is read during
\* the call, the list is what the promise resolves to
DiExecuteGet(i, u) ==
    /\ i \in 1..Len(useCases)
    /\ useCases[i].kind = "GetCart"
    /\ Len(diRuns) < MaxRuns
    /\ diRuns' = Append(diRuns,
                        [useCase |-> i, userId |-> u, productId |-> "p1",
                         qty |-> 0, pc |-> "done", loaded |-> DBGet(db, u)])
    /\ diLog' = Append(diLog,
                       DiEvent("got", i, u, GetCartResult(DBGet(db, u))))
    /\ UNCHANGED <<db, carts, currentCart, loading, calls, log, faults, entity,
                   entityLog, responses, adapterVars, genVars, cartRepo,
                   constructed, useCases, repoVars>>

NextDi ==
    \/ createAddItemToCart
    \/ createGetCart
    \/ \E i \in 1..MaxUseCases, u \in Users, p \in Products, q \in QtyInputs :
           DiExecuteAdd(i, u, p, q)
    \/ \E r \in 1..MaxRuns : DiExecuteSave(r)
    \/ \E i \in 1..MaxUseCases, u \in Users : DiExecuteGet(i, u)

SpecDi == Init /\ [][NextDi]_vars

\* ------------------------------------------- repository and Cart objects
\* A caller of CartRepoHttp holds Cart objects: heap[o] is the item list of
\* object o, a reference is the index o.
RepoEvent(op, u, o, items, isNull, rejected) ==
    [op |-> op, userId |-> u, obj |-> o, items |-> items, isNull |-> isNull,
     rejected |-> rejected]

CanCallRepo == Len(repoLog) < MaxRepoOps

\* new Cart()
NewCartObject ==
    /\ CanCallRepo
    /\ heap' = Append(heap, NewCart)
    /\ repoLog' = Append(repoLog,
                         RepoEvent("new", "u1", Len(heap) + 1, NewCart,
                                   FALSE, FALSE))
    /\ UNCHANGED <<db, carts, currentCart, loading, calls, log, faults, entity,
                   entityLog, responses, adapterVars, genVars, diVars>>

\* cart.addItem(productId, qty) on the object o
ObjectAddItem(o, p, q) ==
    /\ CanCallRepo
    /\ o \in 1..Len(heap)
    /\ heap' = [heap EXCEPT ![o] = AddItem(heap[o], p, q).items]
    /\ repoLog' = Append(repoLog,
                         RepoEvent("addItem", "u1", o,
                                   AddItem(heap[o], p, q).items, FALSE,
                                   AddItem(heap[o], p, q).threw))
    /\ UNCHANGED <<db, carts, currentCart, loading, calls, log, faults, entity,
                   entityLog, responses, adapterVars, genVars, diVars>>

\* CartRepoHttp.save(userId, cart): InMemoryCartDB.set stores the JSON text
\* of cart.getItems(); the console.log that follows reads the productId of
\* the last item and throws on an empty cart, after the text is stored
RepoSaveObject(u, o) ==
    /\ CanCallRepo
    /\ o \in 1..Len(heap)
    /\ db' = DBSet(db, u, heap[o])
    /\ repoLog' = Append(repoLog,
                         RepoEvent("save", u, o, GetItems(heap[o]), FALSE,
                                   heap[o] = <<>>))
    /\ UNCHANGED <<carts, currentCart, loading, calls, log, faults, entity,
                   entityLog, responses, adapterVars, genVars, diVars, heap>>

\* the last save for user u in the history, 0 when there is none
LastSave(u, j) ==
    IF \E k \in 1..(j - 1) : repoLog[k].op = "save" /\ repoLog[k].userId = u
    THEN CHOOSE k \in 1..(j - 1) :
            /\ repoLog[k].op = "save" /\ repoLog[k].userId = u
            /\ \A m \in (k + 1)..(j - 1) :
                   ~(repoLog[m].op = "save" /\ repoLog[m].userId = u)
    ELSE 0

\* mutant of RepoLoadObject: the repository keeps the object it was given
\* and load hands that same object back
RepoLoadShared(u) ==
    /\ CanCallRepo
    /\ LET k == LastSave(u, Len(repoLog) + 1)
       IN  IF k = 0
           THEN repoLog' = Append(repoLog,
                              RepoEvent("load", u, 0, <<>>, TRUE, FALSE))
           ELSE repoLog' = Append(repoLog,
                              RepoEvent("load", u, repoLog[k].obj,
                                        GetItems(heap[repoLog[k].obj]),
                                        FALSE, FALSE))
    /\ heap' = heap
    /\ UNCHANGED <<db, carts, currentCart, loading, calls, log, faults, entity,
                   entityLog, responses, adapterVars, genVars, diVars>>

\* CartRepoHttp.load(userId): InMemoryCartDB.get returns null or a new Cart
\* rebuilt from the stored text
RepoLoadObject(u) ==
    /\ CanCallRepo
    /\ LET r == DBGet(db, u)
       IN  IF r.isNull
           THEN /\ heap' = heap
                /\ repoLog' = Append(repoLog,
                       RepoEvent("load", u, 0, <<>>, TRUE, FALSE))
           ELSE /\ heap' = Append(heap, r.items)
                /\ repoLog' = Append(repoLog,
                       RepoEvent("load", u, Len(heap) + 1, GetItems(r.items),
                                 FALSE, FALSE))
    /\ UNCHANGED <<db, carts, currentCart, loading, calls, log, faults, entity,
                   entityLog, responses, adapterVars, genVars, diVars>>

NextRepo ==
    \/ NewCartObject
    \/ \E o \in 1..MaxRepoOps, p \in Products, q \in QtyInputs :
           ObjectAddItem(o, p, q)
    \/ \E u \in Users, o \in 1..MaxRepoOps : RepoSaveObject(u, o)
    \/ \E u \in Users : RepoLoadObject(u)

SpecRepo == Init /\ [][NextRepo]_vars

\* =================================================================== claims
\* ---- helpers over the history of addItem calls
RECURSIVE SumFor(_, _)
\* the sum of the quantities the calls of hist added for product p
SumFor(hist, p) ==
    IF hist = <<>> THEN 0
    ELSE (IF Head(hist).productId = p THEN Head(hist).qty ELSE 0)
         + SumFor(Tail(hist), p)

RECURSIVE FirstInsertions(_, _)
\* the productIds of hist in the order of their first appearance
FirstInsertions(hist, seen) ==
    IF hist = <<>> THEN <<>>
    ELSE IF Head(hist).productId \in seen
         THEN FirstInsertions(Tail(hist), seen)
         ELSE <<Head(hist).productId>>
              \o FirstInsertions(Tail(hist), seen \cup {Head(hist).productId})

AllPositive(hist) == \A i \in 1..Len(hist) : hist[i].qty > 0

\* the items of the stand-alone cart right after the i-th call
ItemsAfter(i) ==
    IF i < Len(entityLog) THEN entityLog[i + 1].before ELSE GetItems(entity)

\* C7: after any sequence of Cart.addItem calls with positive quantities,
\* getItems has exactly one entry per distinct productId, in the order of
\* first insertion, and each quantity is the sum of the quantities added
\* for that productId.
C7_MergeByKey ==
    AllPositive(entityLog) =>
        LET items == GetItems(entity)
            order == FirstInsertions(entityLog, {})
        IN  /\ Len(items) = Len(order)
            /\ \A i \in 1..Len(items) :
                  /\ items[i].productId = order[i]
                  /\ items[i].quantity = SumFor(entityLog, order[i])

\* three positive adds, p1 then p2 then p1 again: p1 is merged, p2 stays second
C7_Witness ==
    /\ Len(entityLog) = 3
    /\ AllPositive(entityLog)
    /\ entityLog[1].productId = "p1"
    /\ entityLog[2].productId = "p2"
    /\ entityLog[3].productId = "p1"
    /\ entity = <<Item("p1", entityLog[1].qty + entityLog[3].qty),
                  Item("p2", entityLog[2].qty)>>

\* C8: Cart.addItem with a quantity <= 0 fails with the error 'Quantity must
\* be positive' and leaves the items of the cart as they were.
C8_NonPositiveRejected ==
    \A i \in 1..Len(entityLog) :
        entityLog[i].qty <= 0 =>
            /\ entityLog[i].threw
            /\ entityLog[i].error = "Quantity must be positive"
            /\ ItemsAfter(i) = entityLog[i].before

\* a non-empty cart on which addItem with quantity 0 has just failed
C8_Witness ==
    /\ Len(entityLog) >= 2
    /\ entityLog[Len(entityLog)].qty = 0
    /\ entityLog[Len(entityLog)].threw
    /\ entityLog[Len(entityLog)].before # <<>>
    /\ entity = entityLog[Len(entityLog)].before

\* ---- helpers over the history of store events
WriteEvents == {"optimistic", "confirm", "rollback"}
FinalEvents == {"confirm", "rollback", "rethrow"}

HasEvent(c, ev) == \E i \in 1..Len(log) : log[i].call = c /\ log[i].ev = ev

Idx(c, ev) == CHOOSE i \in 1..Len(log) : log[i].call = c /\ log[i].ev = ev

IsWriteTo(i, u) == log[i].ev \in WriteEvents /\ log[i].userId = u

\* carts[u] || [] as the history gives it just before event i
StoreBefore(u, i) ==
    IF \E j \in 1..(i - 1) : IsWriteTo(j, u)
    THEN log[CHOOSE j \in 1..(i - 1) :
                /\ IsWriteTo(j, u)
                /\ \A k \in (j + 1)..(i - 1) : ~IsWriteTo(k, u)].val
    ELSE <<>>

NoWriteToAfter(u, i) == \A j \in (i + 1)..Len(log) : ~IsWriteTo(j, u)

NoWriteAfter(i) == \A j \in (i + 1)..Len(log) : log[j].ev \notin WriteEvents

Optimistic(c) == calls[c].kind = "addToCartOptimistic"

InFlight(c) == calls[c].pc \in {"execLoaded", "execSaved", "reloaded", "failed"}

\* new is old with q added to p's quantity, or with {p, q} appended
IsMergeOf(new, old, p, q) ==
    IF \E i \in 1..Len(old) : old[i].productId = p
    THEN /\ Len(new) = Len(old)
         /\ \A i \in 1..Len(old) :
               /\ new[i].productId = old[i].productId
               /\ new[i].quantity =
                     old[i].quantity + (IF old[i].productId = p THEN q ELSE 0)
    ELSE new = old \o <<[productId |-> p, quantity |-> q]>>

\* C1: when the use case of addToCartOptimistic fails, the rollback leaves
\* carts[userId] and currentCart equal to what carts[userId] was when the
\* call started, for as long as no other write follows; from an empty cart
\* that is [].
C1_RollbackRestoresSnapshot ==
    \A c \in CallIds :
        (Optimistic(c) /\ calls[c].pc = "rejected") =>
            LET u == calls[c].userId
                before == StoreBefore(u, Idx(c, "snapshot"))
                i == Idx(c, "rollback")
            IN  /\ HasEvent(c, "rollback")
                /\ NoWriteToAfter(u, i) =>
                      /\ u \in DOMAIN carts
                      /\ carts[u] = before
                /\ NoWriteAfter(i) => currentCart = before

\* a call that started on a non-empty cart, showed something else, and has
\* just been rolled back
C1_Witness ==
    \E c \in CallIds :
        /\ Optimistic(c) /\ calls[c].pc = "rejected"
        /\ log[Len(log)].call = c /\ log[Len(log)].ev = "rollback"
        /\ StoreBefore(calls[c].userId, Idx(c, "snapshot")) # <<>>
        /\ log[Idx(c, "optimistic")].val
              # StoreBefore(calls[c].userId, Idx(c, "snapshot"))
        /\ carts[calls[c].userId]
              = StoreBefore(calls[c].userId, Idx(c, "snapshot"))

\* the quantity the form of call c names, where it names a number
FormNumber(c) == ParseInt(calls[c].formQty).val

OptimisticWriteShown(c, q) ==
    LET u == calls[c].userId
        before == StoreBefore(u, Idx(c, "snapshot"))
        i == Idx(c, "optimistic")
    IN  /\ i < Idx(c, "invoke")
        /\ NoWriteToAfter(u, i) =>
              /\ u \in DOMAIN carts
              /\ IsMergeOf(carts[u], before, calls[c].productId, q)
        /\ NoWriteAfter(i) => currentCart = carts[u]

\* C2 as stated: while the use case of addToCartOptimistic(userId,
\* {productId p, qty q}) has not completed, carts[userId] and currentCart
\* are the previous cart with q added to p (or {p, q} appended), and the
\* optimistic write precedes the use-case invocation.
C2_Original ==
    \A c \in CallIds :
        (Optimistic(c) /\ InFlight(c) /\ ~ParseInt(calls[c].formQty).nan) =>
            OptimisticWriteShown(c, FormNumber(c))

\* C2 amended: the same with q the quantity the action derives from the
\* form, parseInt(qty) || 1, so that a qty of 0 (like a missing or
\* non-numeric one) counts as 1.
C2_OptimisticWriteFirst ==
    \A c \in CallIds :
        (Optimistic(c) /\ InFlight(c)) =>
            OptimisticWriteShown(c, FormQty(calls[c].formQty))

\* a call in flight that merged into an existing entry of a cart of two
C2_Witness ==
    \E c \in CallIds :
        /\ Optimistic(c) /\ InFlight(c)
        /\ log[Len(log)].call = c /\ log[Len(log)].ev = "invoke"
        /\ Len(StoreBefore(calls[c].userId, Idx(c, "snapshot"))) = 1
        /\ Len(carts[calls[c].userId]) = 1
        /\ carts[calls[c].userId][1].quantity = 2
        /\ currentCart = carts[calls[c].userId]

Started(c) == calls[c].pc # "idle"

Finished(c) == calls[c].pc \in {"resolved", "rejected"}

FirstIdx(c) ==
    CHOOSE i \in 1..Len(log) :
        log[i].call = c /\ \A j \in 1..(i - 1) : log[j].call # c

FinalIdx(c) ==
    CHOOSE i \in 1..Len(log) : log[i].call = c /\ log[i].ev \in FinalEvents

\* no other call was in flight at any time while c was
NoOverlap(c) ==
    \A d \in CallIds \ {c} :
        \/ ~Started(d)
        \/ Finished(d) /\ FinalIdx(d) < FirstIdx(c)
        \/ Finished(c) /\ FinalIdx(c) < FirstIdx(d)

\* the store showed the repository's cart when c started
InSync(c) == calls[c].snapshot = GetCartResult(calls[c].loaded)

\* C3: when the use case of addToCartOptimistic succeeds, the final write
\* sets carts[userId] and currentCart to the list GetCart returned from the
\* repository, whatever the optimistic guess was; for a call that overlaps no
\* other call that list is the repository's cart, and on an in-sync store it
\* is what the optimistic step showed.
C3_ConfirmWritesAuthoritative ==
    \A c \in CallIds :
        (Optimistic(c) /\ calls[c].pc = "resolved") =>
            LET u == calls[c].userId
                i == Idx(c, "confirm")
                real == GetCartResult(calls[c].reloaded)
            IN  /\ HasEvent(c, "confirm")
                /\ NoWriteToAfter(u, i) => (u \in DOMAIN carts /\ carts[u] = real)
                /\ NoWriteAfter(i) => currentCart = real
                /\ (NoOverlap(c) /\ i = Len(log)) =>
                      carts[u] = GetCartResult(DBGet(db, u))
                /\ (NoOverlap(c) /\ InSync(c)) =>
                      log[i].val = log[Idx(c, "optimistic")].val

\* a confirm on a store that was out of sync: the authoritative list
\* replaced an optimistic guess that differed from it
C3_Witness ==
    \E c \in CallIds :
        /\ Optimistic(c) /\ calls[c].pc = "resolved"
        /\ log[Len(log)].call = c /\ log[Len(log)].ev = "confirm"
        /\ log[Idx(c, "optimistic")].val # log[Len(log)].val
        /\ carts[calls[c].userId] = GetCartResult(DBGet(db, calls[c].userId))
        /\ currentCart = carts[calls[c].userId]

StoreCall(c) == calls[c].kind \in {"loadCart", "addToCart", "addToCartOptimistic"}

\* C4: a failure of the use case inside loadCart, addToCart or
\* addToCartOptimistic is never swallowed: after a failure the call never
\* goes on or resolves, and its promise rejects with the error raised.
C4_ErrorsRethrown ==
    \A c \in CallIds :
        StoreCall(c) =>
            /\ calls[c].error # NoError => calls[c].pc \in {"failed", "rejected"}
            /\ calls[c].pc = "resolved" => calls[c].thrown = NoError
            /\ calls[c].pc = "rejected" =>
                  /\ calls[c].error \in {QtyError, RepoError}
                  /\ calls[c].thrown = calls[c].error

\* a loadCart rejected with the repository's error and an addToCart
\* rejected with the entity's validation error
C4_Witness ==
    \E c, d \in CallIds :
        /\ calls[c].kind = "loadCart" /\ calls[c].pc = "rejected"
        /\ calls[c].thrown = RepoError
        /\ calls[d].kind = "addToCart" /\ calls[d].pc = "rejected"
        /\ calls[d].thrown = QtyError

RECURSIVE EventsOf(_, _)
\* the names of the events of call c, in the order they happened
EventsOf(c, events) ==
    IF events = <<>> THEN <<>>
    ELSE (IF Head(events).call = c THEN <<Head(events).ev>> ELSE <<>>)
         \o EventsOf(c, Tail(events))

Pending == <<"snapshot", "optimistic", "invoke">>

PhaseOrder ==
    \A c \in CallIds :
        (Optimistic(c) /\ Started(c)) =>
            LET evs == EventsOf(c, log)
            IN  /\ InFlight(c) => evs = Pending
                /\ calls[c].pc = "resolved" => evs = Pending \o <<"confirm">>
                /\ calls[c].pc = "rejected" => evs = Pending \o <<"rollback">>

Settled(c) == calls[c].pc \in {"execSaved", "reloaded", "failed"}

\* C5: an addToCartOptimistic call goes through snapshot, optimistic-apply,
\* pending and then exactly one of confirm and rollback, in that order, and
\* once its use-case call has settled it always reaches one of the two: a
\* settled call can only stay settled or finish, and no call stays settled
\* for ever.
C5_Phases ==
    /\ []PhaseOrder
    /\ [][\A c \in CallIds :
             (Optimistic(c) /\ Settled(c)) => (Settled(c)' \/ Finished(c)')]_vars
    /\ []<>(\A c \in CallIds : Optimistic(c) => ~Settled(c))

\* one call confirmed and one call rolled back
C5_Witness ==
    \E c, d \in CallIds :
        /\ Optimistic(c) /\ EventsOf(c, log) = Pending \o <<"confirm">>
        /\ Optimistic(d) /\ EventsOf(d, log) = Pending \o <<"rollback">>

Overlap(c, d) ==
    /\ Finished(c) /\ Finished(d)
    /\ FirstIdx(d) < FinalIdx(c)
    /\ FirstIdx(c) < FinalIdx(d)

\* C6: when two addToCartOptimistic calls for one userId overlap, the cart
\* left in carts[userId] is the one written by the final write (confirm or
\* rollback) that ran last, whichever call started first.
C6_LastWriteWins ==
    \A c, d \in CallIds :
        (/\ c # d /\ Optimistic(c) /\ Optimistic(d)
         /\ calls[c].userId = calls[d].userId
         /\ Overlap(c, d)
         /\ FinalIdx(c) < FinalIdx(d)
         /\ NoWriteToAfter(calls[d].userId, FinalIdx(d))) =>
            carts[calls[d].userId] = log[FinalIdx(d)].val

\* the call that started first wrote last, and its stale list won over the
\* list the later call had confirmed
C6_Witness ==
    \E c, d \in CallIds :
        /\ c < d /\ Optimistic(c) /\ Optimistic(d)
        /\ calls[c].userId = calls[d].userId
        /\ Overlap(c, d)
        /\ FinalIdx(d) < FinalIdx(c)
        /\ log[FinalIdx(d)].ev = "confirm" /\ log[FinalIdx(c)].ev = "confirm"
        /\ log[FinalIdx(c)].val # log[FinalIdx(d)].val
        /\ carts[calls[c].userId] = log[FinalIdx(c)].val

\* the step in which execute of call c saves and gets its return value
ExecuteReturns(c) == calls[c].pc = "execLoaded" /\ calls'[c].pc = "execSaved"

\* the quantity of product p in a list of items, 0 when it has none
QuantityIn(items, p) ==
    IF \E i \in 1..Len(items) : items[i].productId = p
    THEN items[CHOOSE i \in 1..Len(items) : items[i].productId = p].quantity
    ELSE 0

\* C9: AddItemToCart.execute(userId, productId, qty) adds the item to the
\* cart it loaded, or to a new empty cart when the repository had none,
\* saves that cart under userId and returns its items: the list returned is
\* what a load of userId yields once the save is done, and on an empty
\* repository it is [{productId, qty}].
C9_ExecuteSavesThenReturns ==
    [][\A c \in CallIds :
          ExecuteReturns(c) =>
              LET u == calls[c].userId
                  p == calls[c].productId
                  old == GetCartResult(calls[c].loaded)
                  returned == calls'[c].result
              IN  /\ u \in DOMAIN db'
                  /\ GetCartResult(DBGet(db', u)) = returned
                  /\ \A v \in DOMAIN db' \ {u} : v \in DOMAIN db /\ db'[v] = db[v]
                  /\ IsMergeOf(returned, old, p, calls[c].qty)
                  /\ calls[c].loaded.isNull =>
                        returned = <<[productId |-> p, quantity |-> calls[c].qty]>>
      ]_vars

\* execute(u1, 'p1', 2) on an empty repository has saved and returned [{p1, 2}]
C9_Witness ==
    \E c \in CallIds :
        /\ calls[c].pc = "execSaved"
        /\ calls[c].loaded.isNull
        /\ calls[c].productId = "p1" /\ calls[c].qty = 2
        /\ calls[c].result = <<[productId |-> "p1", quantity |-> 2]>>
        /\ GetCartResult(DBGet(db, calls[c].userId)) = calls[c].result

HookCall(c) == calls[c].kind = "hook"

\* C10: loading is false before any call of the hook, true from the start
\* of an addToCart call until its use case has settled and the finally block
\* has run, false once every call has ended, and the button is disabled and
\* shows 'Adding...' exactly while loading is true.
C10_LoadingWhileInFlight ==
    /\ (\A c \in CallIds : ~Started(c)) => ~loading
    /\ \A c \in CallIds : (HookCall(c) /\ InFlight(c)) => loading
    /\ (\A c \in CallIds : Started(c) => Finished(c)) => ~loading
    /\ ButtonDisabled <=> loading
    /\ ButtonLabel = "Adding..." <=> loading

\* ---- helpers over the responses of the route handlers
Responses == {responses[i] : i \in 1..Len(responses)}

ApiCall(c) == calls[c].kind \in ApiKinds

\* C11: at POST /api/cart/:userId a domain validation failure (a
\* non-positive quantity) is answered with status 400 or 422, never with the
\* 500 of an unexpected error.
C11_ValidationIs4xx ==
    \A r \in Responses :
        (r.route = PostCartRoute /\ r.cause = QtyError) => r.status \in {400, 422}

\* C12: a failure inside the GET or POST handler of /api/cart/:userId or the
\* GET handler of /api/users is answered with status 500 and the route's
\* fixed message, the body never carries the error's own text, and the
\* handler never rejects: a failed call ends in a response.
C12_UnexpectedIs500 ==
    /\ \A r \in Responses :
         r.cause # NoError =>
            /\ r.status = 500
            /\ r.body.key = "error"
            /\ r.body.text = GenericMessage(r.route)
            /\ r.body.text # r.cause
            /\ r.body.items = <<>>
    /\ \A r \in Responses : r.cause = NoError => r.status = 200
    /\ \A c \in CallIds :
         ApiCall(c) =>
            /\ calls[c].pc # "rejected"
            /\ calls[c].thrown = NoError
            /\ calls[c].pc = "responded" =>
                 \E r \in Responses : r.call = c /\ r.cause = calls[c].error

\* two failures have been answered: a POST whose body was not JSON and a
\* request whose repository promise rejected
C12_Witness ==
    /\ \E r \in Responses : r.route = PostCartRoute /\ r.cause = JsonError
    /\ \E r \in Responses : r.cause = RepoError /\ r.status = 500

\* ---- helpers over the history of adapter calls
Retried(o) == o.kind \in RetriedExceptions

\* the waits slept so far start at 300 ms and grow from one retry to the next
WaitsGrow(sleeps) ==
    /\ sleeps # <<>> => sleeps[1] = 300
    /\ \A j \in 1..(Len(sleeps) - 1) : sleeps[j] < sleeps[j + 1]

\* C18: a _request call makes at most 3 attempts (the original and 2
\* retries); an attempt that gets a response ends the call with that
\* response and no further attempt; one wait precedes each retry, the first
\* of 300 ms and each later one longer; three failed attempts end the call
\* with ExternalServiceError and no fourth attempt.
C18_RetryPolicy ==
    /\ Len(request.outcomes) + (IF request.pc = "attempting" THEN 1 ELSE 0) <= 3
    /\ WaitsGrow(request.sleeps)
    /\ \A i \in 1..Len(requestLog) :
         LET e == requestLog[i]
             n == Len(e.outcomes)
         IN  /\ n \in 1..3
             /\ \A j \in 1..n :
                  e.outcomes[j].kind = "response" =>
                     /\ j = n
                     /\ e.returned = e.outcomes[j].status
                     /\ e.raised = NoError
             /\ \A j \in 1..(n - 1) : Retried(e.outcomes[j])
             /\ Len(e.sleeps) = n - 1
             /\ WaitsGrow(e.sleeps)
             /\ (n = 3 /\ Retried(e.outcomes[3])) =>
                  /\ e.raised = ExternalServiceError
                  /\ e.returned = 0

\* one call gave up after three failed attempts and two waits, another
\* got its response on the first retry
C18_Witness ==
    /\ \E i \in 1..Len(requestLog) :
         /\ Len(requestLog[i].outcomes) = 3
         /\ Retried(requestLog[i].outcomes[3])
         /\ requestLog[i].sleeps = <<300, 600>>
    /\ \E i \in 1..Len(requestLog) :
         /\ Len(requestLog[i].outcomes) = 2
         /\ requestLog[i].returned = 200

\* C19: a response of create_payment_intent with status 400 raises
\* ExternalBadRequest, 429 ExternalRateLimitError, a status >= 500
\* ExternalServerError and any other status >= 400 ExternalServiceError,
\* always exactly one of the four and nothing is returned; a response below
\* 400 raises none of them, and what is returned for it has the four DTO
\* keys only, each with the response's value or None.
C19_ErrorMapping ==
    \A i \in 1..Len(intentLog) :
        LET e == intentLog[i]
        IN  e.status > 0 =>
              /\ e.status = 400 => e.raised = ExternalBadRequest
              /\ e.status = 429 => e.raised = ExternalRateLimitError
              /\ e.status >= 500 => e.raised = ExternalServerError
              /\ (e.status >= 400 /\ e.status < 500
                    /\ e.status \notin {400, 429}) =>
                   e.raised = ExternalServiceError
              /\ e.status >= 400 => (e.raised \in TypedErrors /\ ~e.returned)
              /\ e.status < 400 =>
                   /\ e.raised \notin TypedErrors
                   /\ e.raw # NotJson => e.returned
                   /\ e.returned =>
                        /\ e.raised = NoError
                        /\ DOMAIN e.result = DtoKeys
                        /\ \A k \in DtoKeys :
                             e.result[k] =
                               IF k \in DOMAIN e.raw THEN e.raw[k] ELSE None

\* a 429 was mapped to the rate-limit error, and a response carrying a key
\* outside the DTO was returned without it
C19_Witness ==
    /\ \E i \in 1..Len(intentLog) :
         intentLog[i].status = 429 /\ intentLog[i].raised = ExternalRateLimitError
    /\ \E i \in 1..Len(intentLog) :
         /\ intentLog[i].returned
         /\ "client_secret" \in DOMAIN intentLog[i].raw
         /\ "amount" \notin DOMAIN intentLog[i].raw

\* ---- helpers over the batches of the generation workflow
Workflows ==
    {"/generate-domain-class", "/generate-application-class",
     "/generate-infrastructure-class", "/generate-presentation-class"}

\* the errors recorded for item i of the current batch
ErrorsAt(i) == {k \in 1..Len(genErrors) : genErrors[k].index = i}

\* the output entries of the current batch and of the batches kept
AllOutputs ==
    output \o (IF Len(batches) >= 1 THEN batches[1].output ELSE <<>>)
           \o (IF Len(batches) >= 2 THEN batches[2].output ELSE <<>>)

\* C13: every item that passed validation is handed to exactly one
\* sub-workflow, chosen by the prefix of its layer alone: domain/ the domain
\* generator, application/ the application generator, infrastructure/ the
\* infrastructure generator, presentation/ the presentation generator; two
\* items with the same layer are handed to the same one.
C13_RoutingByPrefix ==
    /\ \A i \in 1..Len(output) :
         LET o == output[i]
         IN  ErrorsAt(i) = {} =>
               /\ o.workflow \in Workflows
               /\ o.spec.layer[1] = "domain" =>
                     o.workflow = "/generate-domain-class"
               /\ o.spec.layer[1] = "application" =>
                     o.workflow = "/generate-application-class"
               /\ o.spec.layer[1] = "infrastructure" =>
                     o.workflow = "/generate-infrastructure-class"
               /\ o.spec.layer[1] = "presentation" =>
                     o.workflow = "/generate-presentation-class"
    /\ LET all == AllOutputs
       IN  \A i, j \in 1..Len(all) :
             (/\ all[i].workflow # NoWorkflow
              /\ all[j].workflow # NoWorkflow
              /\ all[i].spec.layer = all[j].spec.layer) =>
                all[i].workflow = all[j].workflow

\* a finished batch of three items routed to three different sub-workflows
C13_Witness ==
    /\ batch.pc = "done"
    /\ Len(output) = 3
    /\ genErrors = <<>>
    /\ Cardinality({output[i].workflow : i \in 1..3}) = 3
    /\ \E i \in 1..3 : output[i].workflow = "/generate-presentation-class"

\* the layer has no kind after its prefix, or an unknown prefix
BadLayer(spec) ==
    \/ Len(spec.layer) # 2
    \/ spec.layer[1] \notin {"domain", "application", "infrastructure",
                             "presentation"}

\* C14: an item whose layer is invalid or has an unknown prefix gets exactly
\* one recorded error and no artifact fields, and the batch goes on: every
\* item has an output entry, and every other item's descriptor is the one
\* the item gets in a batch of its own.
C14_PartialFailure ==
    /\ Len(output) = Len(batch.items)
    /\ \A i \in 1..Len(output) :
         LET o == output[i]
         IN  /\ o.spec = batch.items[i]
             /\ BadLayer(o.spec) =>
                  /\ Cardinality(ErrorsAt(i)) = 1
                  /\ ~o.generated
                  /\ o.descriptor = NoDescriptor
             /\ ~BadLayer(o.spec) =>
                  /\ o.descriptor = PipelineResults[o.spec].descriptor
                  /\ o.generated = PipelineResults[o.spec].generated
                  /\ (ErrorsAt(i) = {})
                        = (PipelineResults[o.spec].error = NoError)
    /\ \A k \in 1..Len(genErrors) : genErrors[k].index \in 1..Len(output)

\* a finished batch of 3 whose item 2 has a bad layer: 2 descriptors and 1
\* recorded error, for item 2
C14_Witness ==
    /\ batch.pc = "done"
    /\ Len(batch.items) = 3
    /\ BadLayer(batch.items[2])
    /\ Cardinality({i \in 1..3 : output[i].generated}) = 2
    /\ Len(genErrors) = 1
    /\ genErrors[1].index = 2

\* C15: after the same batch has been processed a second time the registry,
\* the files and every item's code_path and test_path are what they were
\* after the first time, and the registry never holds two entries for one
\* class_name.
C15_Idempotent ==
    /\ \A i, j \in 1..Len(registry) :
         registry[i].class_name = registry[j].class_name => i = j
    /\ (batch.pc = "done" /\ batch.resubmit) =>
         /\ Len(batches) = 2
         /\ batches[2].items = batches[1].items
         /\ batches[2].after = batches[1].after
         /\ batches[2].filesAfter = batches[1].filesAfter
         /\ \A i \in 1..Len(batches[1].output) :
              /\ batches[2].output[i].descriptor.code_path
                    = batches[1].output[i].descriptor.code_path
              /\ batches[2].output[i].descriptor.test_path
                    = batches[1].output[i].descriptor.test_path

\* a batch that names one class twice, with different layers, and another
\* class has been processed a second time
C15_Witness ==
    /\ batch.pc = "done"
    /\ batch.resubmit
    /\ Len(batch.items) = 3
    /\ Len(registry) = 2
    /\ \E i, j \in 1..3 :
         /\ i < j
         /\ batch.items[i].class_name = batch.items[j].class_name
         /\ batch.items[i].layer # batch.items[j].layer
         /\ output[i].generated /\ output[j].generated

\* starts with I followed by an uppercase letter
IThenUpper(dep) ==
    /\ Len(dep) > 1
    /\ Head(dep) = "I"
    /\ ToLower(dep[2]) # dep[2]

\* C16: an application/use_case or infrastructure/adapter item with a
\* dependency that does not start with I followed by an uppercase letter
\* (CartRepo) gets a SchemaError and no artifact; with every dependency of
\* that form (ICartRepo) it gets no SchemaError.
C16_DependencyNaming ==
    \A i \in 1..Len(output) :
        LET o == output[i]
            deps == o.spec.dependencies
            errors == {genErrors[k].error : k \in ErrorsAt(i)}
        IN  o.spec.layer \in {<<"application", "use_case">>,
                              <<"infrastructure", "adapter">>} =>
              /\ (\E d \in 1..Len(deps) : ~IThenUpper(deps[d])) =>
                    /\ errors = {SchemaError}
                    /\ ~o.generated
                    /\ o.descriptor = NoDescriptor
              /\ (\A d \in 1..Len(deps) : IThenUpper(deps[d])) =>
                    SchemaError \notin errors
              /\ deps = <<Name_CartRepo>> => errors = {SchemaError}
              /\ deps = <<Name_ICartRepo>> => errors = {}

\* one batch held a use case depending on CartRepo, an adapter depending on
\* Item and a use case depending on ICartRepo, which was generated
C16_Witness ==
    /\ batch.pc = "done"
    /\ \E i \in 1..Len(output) :
         /\ output[i].spec.dependencies = <<Name_CartRepo>>
         /\ ~output[i].generated
    /\ \E i \in 1..Len(output) :
         /\ output[i].spec.dependencies = <<Name_ICartRepo, Name_Item>>
         /\ ~output[i].generated
    /\ \E i \in 1..Len(output) :
         /\ output[i].spec.dependencies = <<Name_ICartRepo>>
         /\ output[i].generated

\* the class_names of the items read so far in the current batch
BatchClasses == {batch.items[i].class_name : i \in 1..Len(batch.items)}

\* C17: during and after a batch, every registry entry an earlier batch
\* recorded for a class_name the batch does not name is still there,
\* unchanged and in its place; every new entry and every file written is
\* for a class_name of the batch, and no file of another class is removed.
C17_OnlyBatchClasses ==
    batch.pc # "idle" =>
      /\ Len(registry) >= Len(batch.before)
      /\ \A i \in 1..Len(batch.before) :
           batch.before[i].class_name \notin BatchClasses =>
              registry[i] = batch.before[i]
      /\ \A i \in 1..Len(registry) :
           (i > Len(batch.before) \/ registry[i] # batch.before[i]) =>
              registry[i].class_name \in BatchClasses
      /\ batch.filesBefore \subseteq files
      /\ \A f \in files \ batch.filesBefore : f.class_name \in BatchClasses

\* a finished batch that generated a new class while the registry held an
\* entry, recorded by an earlier batch, for a class the batch does not name
C17_Witness ==
    /\ batch.pc = "done"
    /\ batch.before # <<>>
    /\ batch.before[1].class_name \notin BatchClasses
    /\ Len(registry) > Len(batch.before)
    /\ files # batch.filesBefore

\* the list the optimistic step of call c wrote to the store
OptimisticList(c) == log[Idx(c, "optimistic")].val

\* Cart.addItem(p, qty) then getItems on the cart the repository held for
\* the user of call c when the call started
EntityList(c) ==
    GetItems(AddItem(GetCartResult(calls[c].loaded),
                     calls[c].productId, calls[c].qty).items)

\* C20: when the store's cart for the user equals the repository's cart and
\* qty is positive, createOptimisticCart(cart, p, qty) yields the same list,
\* item for item and in the same order, as Cart.addItem(p, qty) followed by
\* getItems on the repository's cart; it is the list execute returns, and
\* the confirming write of a call that overlaps no other call leaves
\* carts[userId] as the optimistic step showed it.
C20_OptimisticMatchesEntity ==
    \A c \in CallIds :
        (Optimistic(c) /\ Started(c) /\ InSync(c) /\ calls[c].qty > 0) =>
            /\ OptimisticList(c) = EntityList(c)
            /\ calls[c].pc \in {"execSaved", "reloaded", "resolved"} =>
                  calls[c].result = OptimisticList(c)
            /\ (calls[c].pc = "resolved" /\ NoOverlap(c)) =>
                  LET u == calls[c].userId
                      i == Idx(c, "confirm")
                  IN  /\ StoreBefore(u, i) = OptimisticList(c)
                      /\ log[i].val = StoreBefore(u, i)

\* a confirmed call that added p2 to a store and repository cart [{p1, 1}]:
\* the optimistic list and the confirmed list are both [{p1, 1}, {p2, 1}]
C20_Witness ==
    \E c \in CallIds :
        /\ Optimistic(c) /\ calls[c].pc = "resolved"
        /\ InSync(c) /\ calls[c].qty > 0 /\ NoOverlap(c)
        /\ calls[c].snapshot = <<[productId |-> "p1", quantity |-> 1]>>
        /\ calls[c].productId = "p2"
        /\ OptimisticList(c) = <<[productId |-> "p1", quantity |-> 1],
                                 [productId |-> "p2", quantity |-> 1]>>
        /\ log[Idx(c, "confirm")].val = OptimisticList(c)
        /\ carts[calls[c].userId] = OptimisticList(c)

\* C21: every item whose layer is a value of the enum is processed by the
\* workflow its prefix selects and yields an artifact descriptor: none,
\* application/store, presentation/component and presentation/hook
\* included, goes to a workflow that ignores it, and every infrastructure
\* layer is delegated to exactly one sub-workflow.
C21_EveryEnumLayerGenerated ==
    \A i \in 1..Len(output) :
        LET o == output[i]
        IN  o.spec.layer \in LayerEnum =>
               /\ o.workflow = Route(o.spec.layer)
               /\ o.workflow # NoWorkflow
               /\ o.spec.layer \in Scope(o.workflow)
               /\ o.generated
               /\ o.descriptor # NoDescriptor
               /\ StartsWith(o.spec.layer, "infrastructure") =>
                     InfraRoute(o.spec.layer) # NoWorkflow

\* the last event before position j of the history in which an add for
\* user u was saved, 0 when there is none
LastAdded(u, j) ==
    IF \E k \in 1..(j - 1) : diLog[k].ev = "added" /\ diLog[k].userId = u
    THEN CHOOSE k \in 1..(j - 1) :
            /\ diLog[k].ev = "added" /\ diLog[k].userId = u
            /\ \A m \in (k + 1)..(j - 1) :
                   ~(diLog[m].ev = "added" /\ diLog[m].userId = u)
    ELSE 0

\* the position of the factory call that returned use-case object i
CreatedAt(i) == CHOOSE k \in 1..Len(diLog) :
                    diLog[k].ev = "create" /\ diLog[k].useCase = i

\* C22: getCartRepo constructs the cart repository at most once; every call
\* of createAddItemToCart or createGetCart returns a new use-case object
\* bound to that one repository, so what an AddItemToCart saved is what a
\* GetCart, whenever it was created, reads for that user.
C22_SingletonRepository ==
    /\ constructed <= 1
    /\ cartRepo = Undefined <=> useCases = <<>>
    /\ \A i \in 1..Len(useCases) :
          /\ useCases[i].repo = cartRepo
          /\ \E k \in 1..Len(diLog) :
                 diLog[k].ev = "create" /\ diLog[k].useCase = i
    /\ Cardinality({k \in 1..Len(diLog) : diLog[k].ev = "create"})
          = Len(useCases)
    /\ \A j \in 1..Len(diLog) :
          diLog[j].ev = "got" =>
             diLog[j].items =
                IF LastAdded(diLog[j].userId, j) = 0 THEN <<>>
                ELSE diLog[LastAdded(diLog[j].userId, j)].items

\* a GetCart created after an add was saved returns the added item, and
\* the two use-case objects share the one repository constructed
C22_Witness ==
    \E j \in 1..Len(diLog) :
        /\ diLog[j].ev = "got"
        /\ diLog[j].items = <<[productId |-> "p1", quantity |-> 1]>>
        /\ LastAdded(diLog[j].userId, j) > 0
        /\ CreatedAt(diLog[j].useCase) > LastAdded(diLog[j].userId, j)
        /\ useCases[diLog[j].useCase].repo
              = useCases[diLog[LastAdded(diLog[j].userId, j)].useCase].repo
        /\ constructed = 1

\* a run of AddItemToCart.execute
AddRun(r) == useCases[diRuns[r].useCase].kind = "AddItemToCart"

RECURSIVE AddedBy(_, _, _)
\* the sum of the quantities the runs of the set rs added of product p for
\* user u and saved
AddedBy(rs, u, p) ==
    IF rs = {} THEN 0
    ELSE LET r == CHOOSE x \in rs : TRUE
         IN  (IF /\ AddRun(r) /\ diRuns[r].pc = "done"
                 /\ diRuns[r].userId = u /\ diRuns[r].productId = p
              THEN diRuns[r].qty ELSE 0)
             + AddedBy(rs \ {r}, u, p)

\* C23: no update is lost: once the execute calls have completed, also
\* when two of them for the same userId both loaded before either saved,
\* each product's stored quantity is the sum of the quantities added.
C23_NoLostUpdate ==
    (\A r \in 1..Len(diRuns) : diRuns[r].pc \in {"done", "failed"}) =>
        \A u \in Users, p \in Products :
            QuantityIn(GetCartResult(DBGet(db, u)), p)
                = AddedBy(1..Len(diRuns), u, p)

\* C29: loading is true whenever a call of useAddToCart's addToCart is in
\* flight; the first of two overlapping calls to settle does not make it
\* false while the second is pending.
C29_LoadingWhileAnyInFlight ==
    \A c \in CallIds :
        (HookCall(c) /\ calls[c].pc \in {"execLoaded", "execSaved", "failed"})
            => loading

\* the execute of call c has saved its cart: only then does it return a
\* list, which is never empty
Saved(c) == calls[c].result # <<>>

\* C24: when addToCartOptimistic rolls the store back to its snapshot, the
\* call has not changed the repository's cart of that user: a rollback
\* never hides an addition that was persisted.
C24_RollbackOnlyIfNotSaved ==
    \A c \in CallIds :
        (Optimistic(c) /\ HasEvent(c, "rollback")) => ~Saved(c)

\* C25: a call of AddItemToCart.execute with a quantity that is not
\* positive fails with the entity's error without calling repo.save: no
\* step of the call changes the stored cart of any user.
C25_RejectedAddSavesNothing ==
    [][\A c \in CallIds :
          (calls'[c] # calls[c] /\ calls'[c].kind = "hook"
           /\ calls'[c].qty <= 0) =>
              /\ db' = db
              /\ calls[c].pc = "execLoaded" =>
                    (calls'[c].pc = "failed" /\ calls'[c].error = QtyError)
              /\ ~Saved(c)'
      ]_vars

\* execute(u1, p, 0) has failed with 'Quantity must be positive' on a
\* repository that holds a cart saved by another call
C25_Witness ==
    \E c \in CallIds :
        /\ HookCall(c) /\ calls[c].qty = 0
        /\ calls[c].pc \in {"failed", "rejected"}
        /\ calls[c].error = QtyError
        /\ ~calls[c].loaded.isNull
        /\ GetCartResult(DBGet(db, calls[c].userId))
              = GetCartResult(calls[c].loaded)

\* every quantity is at least 1 and no productId appears twice
ValidItems(items) ==
    /\ \A i \in 1..Len(items) : items[i].quantity >= 1
    /\ \A i, j \in 1..Len(items) :
          items[i].productId = items[j].productId => i = j

\* C26: in every state of the cart store, the window between the
\* optimistic write and the confirm or rollback included, every item of
\* carts[userId] and of currentCart has a quantity of at least 1 and each
\* productId appears at most once, whatever quantity the form supplied.
C26_StoreItemsValid ==
    /\ ValidItems(currentCart)
    /\ \A u \in DOMAIN carts : ValidItems(carts[u])

\* C27: a step of a store action called for user u (loadCart, addToCart,
\* addToCartOptimistic, its rollback included) leaves carts[v] as it was for
\* every other user v.
C27_OtherUsersUntouched ==
    [][\A c \in CallIds :
          (calls'[c] # calls[c] /\ calls'[c].kind \in StoreKinds \cup {"loadCart"})
             => \A v \in Users \ {calls'[c].userId} :
                   /\ v \in DOMAIN carts' <=> v \in DOMAIN carts
                   /\ v \in DOMAIN carts => carts'[v] = carts[v]
      ]_vars

\* the store holds a cart for u1 while the last write, a rollback, was
\* made for u2
C27_Witness ==
    /\ log # <<>>
    /\ log[Len(log)].ev = "rollback" /\ log[Len(log)].userId = "u2"
    /\ DOMAIN carts = {"u1", "u2"}
    /\ carts["u1"] = <<[productId |-> "p1", quantity |-> 1]>>

\* the position of the most recent write of the store, 0 before any write
LastWrite ==
    IF \E i \in 1..Len(log) : log[i].ev \in WriteEvents
    THEN CHOOSE i \in 1..Len(log) :
            log[i].ev \in WriteEvents /\ NoWriteAfter(i)
    ELSE 0

LoadCartCalls == {c \in CallIds : calls[c].kind = "loadCart"}

\* the call of loadCart started last: calls are numbered as they start
LastLoadCart == CHOOSE c \in LoadCartCalls : \A d \in LoadCartCalls : d <= c

\* C28: after every write of the store currentCart equals carts[u] for the
\* user u of the action that wrote last, and it is the cart of the user
\* whose hook called loadCart last, also when actions of two users overlap.
C28_CurrentCartOfLastLoader ==
    LastWrite > 0 =>
        /\ currentCart = carts[log[LastWrite].userId]
        /\ (LoadCartCalls # {}
            /\ \A c \in LoadCartCalls : calls[c].pc = "resolved") =>
              currentCart = CartOf(carts, calls[LastLoadCart].userId)

\* C30: load(u) after save(u, cart) returns a cart with the items cart had
\* when it was saved, load of a user never saved returns null, and what is
\* stored is a copy: adding to a cart object after it was saved or loaded
\* changes no later load until save is called again.
C30_SaveLoadRoundTrip ==
    \A j \in 1..Len(repoLog) :
        repoLog[j].op = "load" =>
            LET k == LastSave(repoLog[j].userId, j)
            IN  /\ k = 0 <=> repoLog[j].isNull
                /\ k > 0 =>
                      /\ repoLog[j].items = repoLog[k].items
                      /\ \A m \in 1..(j - 1) : repoLog[m].obj # repoLog[j].obj

\* a cart was saved with [{p1, 1}], an item was then added to the object,
\* and the load that followed returned [{p1, 1}]
C30_Witness ==
    \E j \in 1..Len(repoLog) :
        /\ repoLog[j].op = "load" /\ ~repoLog[j].isNull
        /\ repoLog[j].items = <<[productId |-> "p1", quantity |-> 1]>>
        /\ LET k == LastSave(repoLog[j].userId, j)
           IN  /\ k > 0
               /\ \E m \in (k + 1)..(j - 1) :
                     /\ repoLog[m].op = "addItem"
                     /\ repoLog[m].obj = repoLog[k].obj
                     /\ ~repoLog[m].rejected
               /\ heap[repoLog[k].obj] # repoLog[j].items

====
